---- MODULE Spec2Model ----
(***************************************************************************)
(* Model of the traczi-billing server: the subscription repository         *)
(* (SubscriptionService over the tc_* tables, with the schema's triggers   *)
(* and stored procedures), the Traccar directory client and the Stripe     *)
(* webhook route.                                                          *)
(*                                                                         *)
(* tc_users is the table Traccar itself serves: the directory API          *)
(* (/api/users) reads and writes its rows, sp_sync_subscription_to_user    *)
(* writes its devicelimit and expirationtime columns.                      *)
(***************************************************************************)
EXTENDS Integers, Sequences, FiniteSets, TLC

VARIABLES
  tc_users,               \* sequence of user rows, id = position
  tc_user_subscriptions,  \* sequence of subscription rows, id = position
  tc_subscription_history,\* sequence of history rows, in insertion order
  tc_device_ownership,    \* set of ownership rows
  tc_stripe_events,       \* set of event rows, keyed by stripe_event_id
  traccarSession,         \* TraccarClient.sessionCookie and sessionExpiry
  now,                    \* the clock (NOW(), CURRENT_TIMESTAMP, Date.now())
  last,                   \* the call made by the latest step and what it returned
  client,                 \* the request() calls in progress on TraccarClient
  tasks                   \* the handlers and service calls in progress, and the
                          \* Stripe checkout sessions created

vars == <<tc_users, tc_user_subscriptions, tc_subscription_history,
          tc_device_ownership, tc_stripe_events, traccarSession, now, last, client,
          tasks>>

----------------------------------------------------------------------------
(* Bounds of the model *)

MaxUsers == 2
MaxHistory == 3
MaxDevices == 2
MaxDeliveries == 2
MaxNow == 2
MaxCallers == 2
MaxLogins == 3
MaxHandlers == 2
MaxAccounts == 3
MaxSessions == 2
MaxConnections == 2

(* SQL NULL: for strings, for timestamps (the clock starts at 1) *)
NULL == "NULL"
NoTime == 0

----------------------------------------------------------------------------
(* config/plans.js *)

PLANS ==
  [test     |-> [id |-> "test",     deviceLimit |-> 5],
   basic    |-> [id |-> "basic",    deviceLimit |-> 30],
   moderate |-> [id |-> "moderate", deviceLimit |-> 80],
   advance  |-> [id |-> "advance",  deviceLimit |-> 350]]

(* The plan rows of tc_subscription_plans (INSERT DEFAULT PLANS) *)
tc_subscription_plans == {"test", "basic", "moderate", "advance"}

----------------------------------------------------------------------------
(* Inputs *)

UserIds == 1..MaxUsers
DeviceIds == 1..MaxDevices

(* The subscriptionData objects passed to upsertSubscription: device_limit *)
(* is the caller's (the plan's limit, or a grandfathered one), the period   *)
(* end (3) lies after the clock, cancel_at_period_end and canceled_at       *)
(* are left out by the caller (|| false, || null), the Stripe customer is   *)
(* cus_A.                                                                   *)
Data(plans, statuses, limits, stripeIds) ==
  { [plan_id |-> p, status |-> s, device_limit |-> l,
     stripe_customer_id |-> "cus_A",
     stripe_subscription_id |-> x, current_period_end |-> 3,
     cancel_at_period_end |-> FALSE, canceled_at |-> NoTime] :
      p \in plans, s \in statuses, l \in limits, x \in stripeIds }

PlanData(p, statuses, stripeIds) == Data({p}, statuses, {PLANS[p].deviceLimit}, stripeIds)

ActiveLike == {"active", "trialing"}

(* LIMIT 1 over a set of row positions: the row with the lowest id *)
First(S) == CHOOSE i \in S : \A j \in S : i <= j

----------------------------------------------------------------------------
(* The relational store.  A db value holds the three tables one            *)
(* transaction of upsertSubscription reads and writes.                     *)

Db(users, subs, hist) == [users |-> users, subs |-> subs, hist |-> hist]

UserExists(users, u) == u \in 1..Len(users)

RowsOfUser(subs, u) == {i \in 1..Len(subs) : subs[i].userid = u}

ActiveRowsOfUser(subs, u) ==
  {i \in 1..Len(subs) : subs[i].userid = u /\ subs[i].status \in ActiveLike}

(* sp_sync_subscription_to_user: copy the active/trialing row's limit and  *)
(* period end to tc_users; COALESCE(v_device_limit, -1) when there is none *)
(* The procedure without the COALESCE: no active row, nothing written *)
sp_sync_subscription_to_user_KeepsLimit(db, p_userid) ==
  LET act == ActiveRowsOfUser(db.subs, p_userid)
  IN IF act = {} THEN db
     ELSE [db EXCEPT !.users[p_userid].devicelimit = db.subs[First(act)].device_limit,
                     !.users[p_userid].expirationtime =
                        db.subs[First(act)].current_period_end]

sp_sync_subscription_to_user(db, p_userid) ==
  LET act == ActiveRowsOfUser(db.subs, p_userid)
      v_device_limit == IF act = {} THEN -1 ELSE db.subs[First(act)].device_limit
      v_expiration == IF act = {} THEN NoTime ELSE db.subs[First(act)].current_period_end
  IN [db EXCEPT !.users =
        [k \in 1..Len(db.users) |->
           IF k = p_userid
             THEN [db.users[k] EXCEPT !.devicelimit = v_device_limit,
                                      !.expirationtime = v_expiration]
             ELSE db.users[k]]]

(* sp_add_subscription_history: read plan_id and status of the row, insert *)
sp_add_subscription_history_Overwrite(db, p_userid, p_subscription_id, p_event_type, p_metadata) ==
  LET row == [userid |-> p_userid, subscription_id |-> p_subscription_id,
              plan_id |-> db.subs[p_subscription_id].plan_id,
              status |-> db.subs[p_subscription_id].status,
              event_type |-> p_event_type, metadata |-> p_metadata]
  IN [db EXCEPT !.hist = IF db.hist = <<>> THEN <<row>>
                         ELSE [db.hist EXCEPT ![Len(db.hist)] = row]]

sp_add_subscription_history(db, p_userid, p_subscription_id, p_event_type, p_metadata) ==
  LET v_plan_id == db.subs[p_subscription_id].plan_id
      v_status == db.subs[p_subscription_id].status
  IN [db EXCEPT !.hist = Append(db.hist,
        [userid |-> p_userid, subscription_id |-> p_subscription_id,
         plan_id |-> v_plan_id, status |-> v_status,
         event_type |-> p_event_type, metadata |-> p_metadata])]

(* AFTER INSERT ON tc_user_subscriptions, in creation order; new_row is NEW *)
tr_subscription_sync_after_insert(db, new_row) ==
  IF new_row.status \in ActiveLike THEN sp_sync_subscription_to_user(db, new_row.userid) ELSE db

tr_subscription_history_after_insert(db, new_row) ==
  sp_add_subscription_history(db, new_row.userid, new_row.id, "subscription_created",
                              <<new_row.plan_id, new_row.status>>)

(* AFTER UPDATE ON tc_user_subscriptions; old_row, new_row are OLD, NEW *)
tr_subscription_sync_after_update(db, old_row, new_row) ==
  IF new_row.status \in ActiveLike \/ old_row.status \in ActiveLike
    THEN sp_sync_subscription_to_user(db, new_row.userid) ELSE db

(* The trigger without its OLD.status != NEW.status test *)
tr_subscription_history_after_update_EveryUpdate(db, old_row, new_row) ==
  LET d1 == sp_add_subscription_history(db, new_row.userid, new_row.id, "status_changed",
                                        <<old_row.status, new_row.status>>)
  IN IF old_row.plan_id # new_row.plan_id
       THEN sp_add_subscription_history(d1, new_row.userid, new_row.id, "plan_changed",
                                        <<old_row.plan_id, new_row.plan_id>>)
       ELSE d1

tr_subscription_history_after_update_StatusOnly(db, old_row, new_row) ==
  IF old_row.status # new_row.status
    THEN sp_add_subscription_history(db, new_row.userid, new_row.id, "status_changed",
                                     <<old_row.status, new_row.status>>)
    ELSE db

tr_subscription_history_after_update(db, old_row, new_row) ==
  LET d1 == IF old_row.status # new_row.status
              THEN sp_add_subscription_history(db, new_row.userid, new_row.id, "status_changed",
                                               <<old_row.status, new_row.status>>)
              ELSE db
  IN IF old_row.plan_id # new_row.plan_id
       THEN sp_add_subscription_history(d1, new_row.userid, new_row.id, "plan_changed",
                                        <<old_row.plan_id, new_row.plan_id>>)
       ELSE d1

(* One INSERT INTO tc_user_subscriptions with its triggers *)
InsertRow(db, new_row) ==
  LET d0 == [db EXCEPT !.subs = Append(db.subs, new_row)]
  IN tr_subscription_history_after_insert(tr_subscription_sync_after_insert(d0, new_row), new_row)

(* One row of an UPDATE tc_user_subscriptions with its triggers *)
UpdateRow(db, i, new_row) ==
  LET old_row == db.subs[i]
      d0 == [db EXCEPT !.subs[i] = new_row]
  IN tr_subscription_history_after_update(tr_subscription_sync_after_update(d0, old_row, new_row),
                                          old_row, new_row)

(* The constraints of tc_user_subscriptions a write can violate: the two   *)
(* foreign keys and UNIQUE KEY unique_stripe_sub                           *)
ConstraintViolated(db, new_row) ==
  \/ ~UserExists(db.users, new_row.userid)
  \/ new_row.plan_id \notin tc_subscription_plans
  \/ \E j \in 1..Len(db.subs) :
       /\ j # new_row.id
       /\ new_row.stripe_subscription_id # NULL
       /\ db.subs[j].stripe_subscription_id = new_row.stripe_subscription_id

----------------------------------------------------------------------------
(* SubscriptionService (lib/subscriptionService.js).  Each operation takes *)
(* the store, its arguments, the statement that fails (fault) and the      *)
(* clock, and gives the store it leaves and what the caller sees.          *)

UpsertFaults == {"none", "select", "write", "sync", "commit"}

(* connection.rollback(): the store is as it was at beginTransaction *)
Rollback_KeepsWork(before, work) == work

Rollback(before, work) == before

(* The row the INSERT branch writes *)
InsertedRow(db, userId, d) ==
  [id |-> Len(db.subs) + 1, userid |-> userId, plan_id |-> d.plan_id,
   status |-> d.status, device_limit |-> d.device_limit,
   stripe_customer_id |-> d.stripe_customer_id,
   stripe_subscription_id |-> d.stripe_subscription_id,
   current_period_end |-> d.current_period_end,
   canceled_at |-> NoTime, ended_at |-> NoTime,
   cancel_at_period_end |-> d.cancel_at_period_end]

(* The row the UPDATE branch leaves *)
UpdatedRow(old_row, d) ==
  [old_row EXCEPT !.plan_id = d.plan_id, !.status = d.status,
                  !.device_limit = d.device_limit,
                  !.stripe_customer_id = d.stripe_customer_id,
                  !.stripe_subscription_id = d.stripe_subscription_id,
                  !.current_period_end = d.current_period_end,
                  !.canceled_at = d.canceled_at,
                  !.cancel_at_period_end = d.cancel_at_period_end]

(* SELECT id FROM tc_user_subscriptions WHERE userid = ? LIMIT 1 *)
ExistingRows_NeverFound(subs, userId) == {}

ExistingRows(subs, userId) == RowsOfUser(subs, userId)

upsertSubscription_SyncBestEffort(db, userId, d, fault) ==
  LET existing == ExistingRows(db.subs, userId)
      new_row == IF existing # {}
                   THEN UpdatedRow(db.subs[First(existing)], d)
                   ELSE InsertedRow(db, userId, d)
      written == IF existing # {}
                   THEN UpdateRow(db, First(existing), new_row)
                   ELSE InsertRow(db, new_row)
      synced == sp_sync_subscription_to_user(written, userId)
      thrown(work) == [db |-> Rollback(db, work), result |-> "thrown", id |-> 0]
  IN IF fault = "select" THEN thrown(db)
     ELSE IF fault = "write" \/ ConstraintViolated(db, new_row) THEN thrown(db)
     ELSE IF fault = "sync" THEN [db |-> written, result |-> "ok", id |-> new_row.id]
     ELSE IF fault = "commit" THEN thrown(synced)
     ELSE [db |-> synced, result |-> "ok", id |-> new_row.id]

upsertSubscription(db, userId, d, fault) ==
  LET existing == ExistingRows(db.subs, userId)
      new_row == IF existing # {}
                   THEN UpdatedRow(db.subs[First(existing)], d)
                   ELSE InsertedRow(db, userId, d)
      written == IF existing # {}
                   THEN UpdateRow(db, First(existing), new_row)
                   ELSE InsertRow(db, new_row)
      synced == sp_sync_subscription_to_user(written, userId)
      thrown(work) == [db |-> Rollback(db, work), result |-> "thrown", id |-> 0]
  IN IF fault = "select" THEN thrown(db)
     ELSE IF fault = "write" \/ ConstraintViolated(db, new_row) THEN thrown(db)
     ELSE IF fault = "sync" THEN thrown(written)
     ELSE IF fault = "commit" THEN thrown(synced)
     ELSE [db |-> synced, result |-> "ok", id |-> new_row.id]

(* The statements of upsertSubscription after its SELECT has returned     *)
(* existing: the UPDATE or INSERT with its triggers, the sync CALL and the *)
(* commit, on the store as it is by then.  This one looks again.           *)
upsertAfterSelect_LooksAgain(db, userId, d, existing, fault) ==
  upsertSubscription(db, userId, d, fault)

upsertAfterSelect(db, userId, d, existing, fault) ==
  LET new_row == IF existing # {}
                   THEN UpdatedRow(db.subs[First(existing)], d)
                   ELSE InsertedRow(db, userId, d)
      written == IF existing # {}
                   THEN UpdateRow(db, First(existing), new_row)
                   ELSE InsertRow(db, new_row)
      synced == sp_sync_subscription_to_user(written, userId)
      thrown(work) == [db |-> Rollback(db, work), result |-> "thrown", id |-> 0]
  IN IF fault = "write" \/ ConstraintViolated(db, new_row) THEN thrown(db)
     ELSE IF fault = "sync" THEN thrown(written)
     ELSE IF fault = "commit" THEN thrown(synced)
     ELSE [db |-> synced, result |-> "ok", id |-> new_row.id]

(* addSubscriptionHistory: INSERT ... SELECT ... FROM tc_user_subscriptions s *)
(* WHERE s.userid = ? LIMIT 1; a failure is logged and swallowed             *)
addSubscriptionHistory(db, userId, eventType, failed) ==
  LET rows == RowsOfUser(db.subs, userId)
  IN IF failed \/ rows = {} \/ ~UserExists(db.users, userId) THEN db
     ELSE LET s == db.subs[First(rows)]
          IN [db EXCEPT !.hist = Append(db.hist,
                [userid |-> userId, subscription_id |-> s.id, plan_id |-> s.plan_id,
                 status |-> s.status, event_type |-> eventType, metadata |-> <<>>])]

(* An UPDATE of every row of the set rows, each with its triggers *)
RECURSIVE UpdateRows(_, _, _)
UpdateRows(db, rows, changed) ==
  IF rows = {} THEN db
  ELSE LET i == First(rows)
       IN UpdateRows(UpdateRow(db, i, changed[i]), rows \ {i}, changed)

CancelFaults == {"none", "update", "history"}

cancelSubscription(db, userId, cancelAtPeriodEnd, fault, t) ==
  LET Change(r) == [r EXCEPT !.cancel_at_period_end = cancelAtPeriodEnd,
                             !.canceled_at = IF cancelAtPeriodEnd THEN t ELSE @]
      rows == ActiveRowsOfUser(db.subs, userId)
      updated == UpdateRows(db, rows, [i \in rows |-> Change(db.subs[i])])
  IN IF fault = "update" THEN [db |-> db, result |-> "thrown"]
     ELSE [db |-> addSubscriptionHistory(updated, userId, "subscription_canceled",
                                         fault = "history"),
           result |-> "ok"]

EndFaults == {"none", "update", "sync", "history"}

endSubscription(db, userId, fault, t) ==
  LET Change(r) == [r EXCEPT !.status = "canceled", !.ended_at = t]
      rows == {i \in RowsOfUser(db.subs, userId) : db.subs[i].status # "canceled"}
      updated == UpdateRows(db, rows, [i \in rows |-> Change(db.subs[i])])
      synced == sp_sync_subscription_to_user(updated, userId)
  IN IF fault = "update" THEN [db |-> db, result |-> "thrown"]
     ELSE IF fault = "sync" THEN [db |-> updated, result |-> "thrown"]
     ELSE [db |-> addSubscriptionHistory(synced, userId, "subscription_ended",
                                         fault = "history"),
           result |-> "ok"]

(* sp_can_add_device: OUT p_can_add, p_message, p_remaining *)
sp_can_add_device_StrictlyOver(subs, ownership, p_userid) ==
  LET act == ActiveRowsOfUser(subs, p_userid)
      v_current_count == Cardinality({r \in ownership : r.ownerid = p_userid})
  IN IF act = {}
       THEN [can_add |-> 0, message |-> "No active subscription found", remaining |-> 0]
     ELSE LET v_device_limit == subs[First(act)].device_limit
          IN IF v_current_count > v_device_limit
               THEN [can_add |-> 0, message |-> "Device limit reached", remaining |-> 0]
               ELSE [can_add |-> 1, message |-> "Can add more device(s)",
                     remaining |-> v_device_limit - v_current_count]

sp_can_add_device(subs, ownership, p_userid) ==
  LET act == ActiveRowsOfUser(subs, p_userid)
      v_current_count == Cardinality({r \in ownership : r.ownerid = p_userid})
  IN IF act = {}
       THEN [can_add |-> 0, message |-> "No active subscription found", remaining |-> 0]
     ELSE LET v_device_limit == subs[First(act)].device_limit
          IN IF v_current_count >= v_device_limit
               THEN [can_add |-> 0, message |-> "Device limit reached", remaining |-> 0]
               ELSE [can_add |-> 1, message |-> "Can add more device(s)",
                     remaining |-> v_device_limit - v_current_count]

(* canAddDevice: CALL sp_can_add_device(?, @can_add, @message, @remaining), *)
(* then SELECT of the three session variables                               *)
canAddDevice(subs, ownership, userId) ==
  LET result == sp_can_add_device(subs, ownership, userId)
  IN [canAdd |-> (result.can_add = 1), message |-> result.message,
      remaining |-> result.remaining]

(* The session variables @can_add, @message, @remaining of a connection    *)
(* that ran no CALL yet: NULL, written -1 for the two numbers              *)
UnsetVariables == [can_add |-> -1, message |-> NULL, remaining |-> -1]

(* The object canAddDevice returns from the row of its SELECT *)
VerdictOf(result) ==
  [canAdd |-> (result.can_add = 1), message |-> result.message,
   remaining |-> result.remaining]

(* Rows of tc_device_ownership for the device (deviceid is the PRIMARY KEY) *)
OwnershipRows(ownership, deviceId) == {r \in ownership : r.deviceid = deviceId}

(* An INSERT that looks at the owner's limit first *)
setDeviceOwner_ChecksLimit(ownership, deviceId, ownerId) ==
  IF sp_can_add_device(tc_user_subscriptions, ownership, ownerId).can_add = 1
    THEN ownership \cup {[deviceid |-> deviceId, ownerid |-> ownerId, transferred_from |-> 0]}
    ELSE ownership

(* The INSERT on a table without the key on deviceid *)
setDeviceOwner_NoKey(ownership, deviceId, ownerId) ==
  ownership \cup {[deviceid |-> deviceId, ownerid |-> ownerId, transferred_from |-> 0]}

(* setDeviceOwner: INSERT ... ON DUPLICATE KEY UPDATE transferred_from =    *)
(* ownerid, ownerid = VALUES(ownerid), the assignments taken left to right; *)
(* ownerid references tc_users; transferred_from 0 stands for NULL          *)
setDeviceOwner(ownership, deviceId, ownerId) ==
  LET old == OwnershipRows(ownership, deviceId)
  IN IF old = {}
       THEN ownership \cup
              {[deviceid |-> deviceId, ownerid |-> ownerId, transferred_from |-> 0]}
       ELSE (ownership \ old) \cup
              {[r EXCEPT !.transferred_from = r.ownerid, !.ownerid = ownerId] : r \in old}

(* Rows of tc_stripe_events with the event id (stripe_event_id is UNIQUE) *)
EventRows(events, id) == {ev \in events : ev.stripe_event_id = id}

(* logStripeEvent: INSERT ... ON DUPLICATE KEY UPDATE processed,            *)
(* error_message, processed_at; eventData.processed is processed || false, *)
(* eventData.error_message is error_message || null.  A failed query is    *)
(* logged and swallowed.                                                   *)
logStripeEvent(events, eventData, failed, t) ==
  LET old == EventRows(events, eventData.stripe_event_id)
  IN IF failed THEN events
     ELSE IF old = {}
       THEN events \cup {[stripe_event_id |-> eventData.stripe_event_id,
                          event_type |-> eventData.event_type,
                          processed |-> eventData.processed,
                          error_message |-> eventData.error_message,
                          processed_at |-> NoTime]}
     ELSE (events \ old) \cup
            {[ev EXCEPT !.processed = eventData.processed,
                        !.error_message = eventData.error_message,
                        !.processed_at = IF eventData.processed THEN t ELSE @] : ev \in old}

(* markEventProcessed: UPDATE ... WHERE stripe_event_id = ?; a failed      *)
(* query is logged and swallowed                                           *)
markEventProcessed(events, stripeEventId, success, errorMessage, failed, t) ==
  LET old == EventRows(events, stripeEventId)
  IN IF failed THEN events
     ELSE (events \ old) \cup
            {[ev EXCEPT !.processed = success, !.error_message = errorMessage,
                        !.processed_at = t] : ev \in old}

----------------------------------------------------------------------------
(* TraccarClient (lib/traccarClient.js).  A handler's directory calls are  *)
(* threaded through a context: the directory rows, the client's session,   *)
(* the number n of request() calls made, the number of HTTP calls sent to  *)
(* Traccar, and whether a call has thrown.  failAt names the request()     *)
(* call that fails (0: none); failKind says whether its login or its own   *)
(* fetch fails.                                                            *)

(* 23 hours, in units of the clock *)
SessionTtl == 1

NoSession == [sessionCookie |-> NULL, sessionExpiry |-> NoTime]

(* The cached-session test that ignores the expiry *)
SessionValid_IgnoresExpiry(sess, t) == sess.sessionCookie # NULL

SessionValid(sess, t) ==
  sess.sessionCookie # NULL /\ sess.sessionExpiry # NoTime /\ t < sess.sessionExpiry

Context(users, sess) ==
  [users |-> users, session |-> sess, n |-> 0, calls |-> 0, ok |-> TRUE, error |-> NULL]

(* request(): authenticate(), then the fetch; a non-2xx answer throws an   *)
(* error marked traccarError, a failed login throws a plain Error          *)
request(ctx, failAt, failKind, t) ==
  IF ~ctx.ok THEN ctx
  ELSE LET k == ctx.n + 1
           login == ~SessionValid(ctx.session, t)
           sess == IF login
                     THEN [sessionCookie |-> "JSESSIONID", sessionExpiry |-> t + SessionTtl]
                     ELSE ctx.session
       IN IF k = failAt /\ failKind = "auth" /\ login
            THEN [ctx EXCEPT !.n = k, !.calls = @ + 1, !.ok = FALSE, !.error = "Error"]
          ELSE IF k = failAt
            THEN [ctx EXCEPT !.n = k, !.calls = @ + (IF login THEN 2 ELSE 1),
                             !.session = sess, !.ok = FALSE, !.error = "traccarError"]
          ELSE [ctx EXCEPT !.n = k, !.calls = @ + (IF login THEN 2 ELSE 1),
                           !.session = sess]

(* users.find(user => user.email === email): 0 stands for undefined *)
FindByEmail(users, email) ==
  LET found == {i \in 1..Len(users) : users[i].email = email}
  IN IF found = {} THEN 0 ELSE First(found)

getUserByEmail(ctx, email, failAt, failKind, t) ==
  LET c == request(ctx, failAt, failKind, t)
  IN [ctx |-> c, user |-> IF c.ok THEN FindByEmail(c.users, email) ELSE 0]

(* GET /api/users/{id}, then PUT /api/users/{id} of the full updated record *)
PutUser(ctx, userId, updatedUser, failAt, failKind, t) ==
  LET got == request(ctx, failAt, failKind, t)
      put == request(got, failAt, failKind, t)
  IN IF put.ok THEN [put EXCEPT !.users[userId] = updatedUser] ELSE put

updateUserLimits(ctx, userId, deviceLimit, attributes, failAt, failKind, t) ==
  IF ~ctx.ok THEN ctx
  ELSE LET user == ctx.users[userId]
       IN PutUser(ctx, userId,
                  [user EXCEPT !.devicelimit = deviceLimit,
                               !.attributes = [a \in DOMAIN user.attributes |->
                                  IF a \in DOMAIN attributes THEN attributes[a]
                                  ELSE user.attributes[a]]],
                  failAt, failKind, t)

setUserStatus(ctx, userId, disabled, failAt, failKind, t) ==
  IF ~ctx.ok THEN ctx
  ELSE PutUser(ctx, userId, [ctx.users[userId] EXCEPT !.disabled = disabled],
               failAt, failKind, t)

updateSubscriptionMetadata(ctx, userId, subscriptionData, failAt, failKind, t) ==
  IF ~ctx.ok THEN ctx
  ELSE LET user == ctx.users[userId]
       IN PutUser(ctx, userId,
                  [user EXCEPT !.attributes =
                     [@ EXCEPT !.stripeSubscriptionId = subscriptionData.subscriptionId,
                               !.subscriptionPlan = subscriptionData.plan,
                               !.subscriptionStatus = subscriptionData.status]],
                  failAt, failKind, t)

(* updateUserPassword: the record is PUT back with the password replaced *)
updateUserPassword(ctx, userId, failAt, failKind, t) ==
  IF ~ctx.ok THEN ctx
  ELSE PutUser(ctx, userId, ctx.users[userId], failAt, failKind, t)

(* verifyUserCredentials: one POST /api/session outside request(); never throws *)
verifyUserCredentials(ctx) ==
  IF ~ctx.ok THEN ctx ELSE [ctx EXCEPT !.calls = @ + 1]

(* A JavaScript number: NaN, or an integer *)
NaN == [nan |-> TRUE, v |-> 0]
Num(v) == [nan |-> FALSE, v |-> v]

(* parseInt(string, 10) of the metadata values that occur; undefined gives NaN *)
DecimalStrings == [s \in {"0", "5", "30", "80", "350"} |->
                     CASE s = "0" -> 0 [] s = "5" -> 5 [] s = "30" -> 30 [] s = "80" -> 80
                       [] s = "350" -> 350]

(* Number.prototype.toString() of the limits of the plans *)
toString(n) == CHOOSE s \in DOMAIN DecimalStrings : DecimalStrings[s] = n

parseInt(str) == IF str \in DOMAIN DecimalStrings THEN Num(DecimalStrings[str]) ELSE NaN

(* A Traccar account as the server creates it (POST /api/users) *)
NoAttributes ==
  [subscriptionPlan |-> NULL, subscriptionStatus |-> NULL, stripeSubscriptionId |-> NULL]

UserRow(id, email, deviceLimit) ==
  [id |-> id, email |-> email, devicelimit |-> deviceLimit, disabled |-> FALSE,
   expirationtime |-> NoTime, attributes |-> NoAttributes]

(* createUser: deviceLimit: userData.deviceLimit || -1, disabled: false *)
createUser(ctx, email, deviceLimit, failAt, failKind, t) ==
  LET c == request(ctx, failAt, failKind, t)
      limit == IF deviceLimit.nan \/ deviceLimit.v = 0 THEN -1 ELSE deviceLimit.v
  IN IF c.ok THEN [c EXCEPT !.users = Append(@, UserRow(Len(@) + 1, email, limit))]
     ELSE c

----------------------------------------------------------------------------
(* TraccarClient under overlapping callers.  A request() call runs in the  *)
(* pieces its awaits cut it into: the cache check of authenticate() (and   *)
(* the login fetch it sends), the login response, the sending of the       *)
(* call's own fetch with the cookie then stored, and its response.         *)

Callers == 1..MaxCallers

(* The cookies Traccar hands out, in the order of the logins it answers *)
Cookies == <<"JSESSIONID_1", "JSESSIONID_2", "JSESSIONID_3", "JSESSIONID_4", "JSESSIONID_5">>

TokenIndex(cookie) == CHOOSE k \in 1..Len(Cookies) : Cookies[k] = cookie

(* What request() gave its caller: a value, or the error thrown; statusCode *)
(* 0 stands for undefined                                                   *)
Pending == [done |-> FALSE, ok |-> FALSE, traccarError |-> FALSE, statusCode |-> 0]
Returned == [done |-> TRUE, ok |-> TRUE, traccarError |-> FALSE, statusCode |-> 0]
Thrown(marked, status) ==
  [done |-> TRUE, ok |-> FALSE, traccarError |-> marked, statusCode |-> status]

(* pc: where each call stands; own: the cookie the call's own login got;   *)
(* cookie: the Cookie header of its fetch; answer: the status of the last  *)
(* response it received; logins: POST /api/session requests sent so far;   *)
(* issued: logins answered with a session                                  *)
NoCalls ==
  [pc |-> [c \in Callers |-> "idle"], own |-> [c \in Callers |-> NULL],
   cookie |-> [c \in Callers |-> NULL], answer |-> [c \in Callers |-> 0],
   result |-> [c \in Callers |-> Pending], logins |-> 0, issued |-> 0]

----------------------------------------------------------------------------
(* Handlers and repository calls in progress at once.  The server answers *)
(* each request in its own async handler; a handler gives way to the      *)
(* others at each await.                                                  *)

Handlers == 1..MaxHandlers

(* A handleCheckoutCompleted in progress: pc is where it stands, email the *)
(* session's customer_email, user the id of the account it found or       *)
(* created (0: none), record the account as its last GET returned it      *)
IdleCheckout == [pc |-> "idle", email |-> NULL, user |-> 0, record |-> NULL]

(* An upsertSubscription in progress: existing is the result of its       *)
(* SELECT, id the subscriptionId it returns (0: none)                     *)
IdleUpsert == [pc |-> "idle", userId |-> 0, data |-> NULL, existing |-> {}, id |-> 0]

(* A read-modify-write of a directory record in progress                  *)
(* (updateUserLimits, setUserStatus): call is the method and its          *)
(* arguments, record the account as its GET returned it                   *)
IdleUpdate == [pc |-> "idle", userId |-> 0, call |-> NULL, record |-> NULL]

(* A caller that checks canAddDevice and then records a device: own is    *)
(* what the CALL of its canAddDevice computed, verdict what canAddDevice   *)
(* returned to it                                                          *)
IdleDevice == [pc |-> "idle", userId |-> 0, own |-> NULL, verdict |-> NULL]

(* The connections of the pool (database.js: mysql.createPool), each with  *)
(* its session variables                                                   *)
Connections == 1..MaxConnections

NoTasks == [checkout |-> [h \in Handlers |-> IdleCheckout],
            upsert |-> [h \in Handlers |-> IdleUpsert],
            update |-> [h \in Handlers |-> IdleUpdate],
            device |-> [h \in Handlers |-> IdleDevice],
            connections |-> [c \in Connections |-> UnsetVariables],
            sessions |-> {}]

----------------------------------------------------------------------------
(* The webhook route (routes/webhooks.js) *)

(* config.stripe.prices: the environment sets basic, moderate and advance *)
stripePrices ==
  [test |-> "undefined", basic |-> "price_basic", moderate |-> "price_moderate",
   advance |-> "price_advance"]

(* getPlanByPriceId: NULL stands for null *)
getPlanByPriceId(priceId) ==
  IF priceId = stripePrices.test THEN "test"
  ELSE IF priceId = stripePrices.basic THEN "basic"
  ELSE IF priceId = stripePrices.moderate THEN "moderate"
  ELSE IF priceId = stripePrices.advance THEN "advance"
  ELSE NULL

(* getPlanById: PLANS[planId.toUpperCase()] || null *)
getPlanById(planId) == IF planId \in DOMAIN PLANS THEN planId ELSE NULL

(* The metadata object of a POST /billing/checkout body, by the keys the   *)
(* webhook reads later; NULL: the body's metadata has no such key          *)
ClientMetadata == [deviceLimit : {NULL, "0", "80", "unlimited"}]

CheckoutBodies ==
  [planId : {"basic", "moderate", "test"}, email : {"new@x.com"}, metadata : ClientMetadata]

(* validateCheckoutSession: planId is one of the three sold plans, email   *)
(* is an address, metadata is any object                                   *)
validateCheckoutSession(body) == body.planId \in {"basic", "moderate", "advance"}

(* POST /billing/checkout: the answer's status and the session created at  *)
(* Stripe (none unless 200).  The session metadata is                      *)
(* {planId, deviceLimit, userEmail, ...metadata}: a key of the body's      *)
(* metadata replaces the route's; subscription_data.metadata is the        *)
(* route's alone.                                                          *)
CheckoutRoute(body) ==
  LET plan == getPlanById(body.planId)
  IN IF ~validateCheckoutSession(body) \/ plan = NULL
       THEN [http |-> 400, sessions |-> {}]
     ELSE IF stripePrices[plan] = "undefined"
       THEN [http |-> 500, sessions |-> {}]
     ELSE [http |-> 200,
           sessions |->
             {[customer_email |-> body.email,
               price |-> stripePrices[plan],
               metadata |->
                 [planId |-> PLANS[plan].id,
                  deviceLimit |-> IF body.metadata.deviceLimit # NULL
                                    THEN body.metadata.deviceLimit
                                    ELSE toString(PLANS[plan].deviceLimit),
                  userEmail |-> body.email],
               subscription_metadata |->
                 [planId |-> PLANS[plan].id,
                  deviceLimit |-> toString(PLANS[plan].deviceLimit),
                  userEmail |-> body.email]]}]

(* A Stripe event: its type and the fields of data.object the handlers read. *)
(* email is customer_email or metadata.userEmail, subscription the session's *)
(* subscription id, planId and deviceLimit come from the session metadata,   *)
(* priceId is items.data[0].price.id.  The id is one per event.              *)
StripeEvent(type, email, subscription, planId, deviceLimit, priceId, status) ==
  [id |-> <<type, email, subscription, planId, deviceLimit, priceId, status>>,
   type |-> type, email |-> email, subscription |-> subscription, planId |-> planId,
   deviceLimit |-> deviceLimit, priceId |-> priceId, status |-> status]

handleCheckoutCompleted(ctx, e, loginWorks, failAt, failKind, t) ==
  IF e.subscription = NULL THEN ctx
  ELSE
    LET found == getUserByEmail(ctx, e.email, failAt, failKind, t)
        created == createUser(found.ctx, e.email, parseInt(e.deviceLimit), failAt, failKind, t)
        newId == Len(created.users)
        verified == verifyUserCredentials(created)
        reset == updateUserPassword(verified, newId, failAt, failKind, t)
        provisioned ==
          IF ~created.ok \/ loginWorks THEN verified
          ELSE IF reset.ok THEN verifyUserCredentials(reset)
          ELSE [reset EXCEPT !.ok = TRUE, !.error = NULL]
        c == IF found.ctx.ok /\ found.user = 0 THEN provisioned ELSE found.ctx
        userId == IF found.user = 0 THEN newId ELSE found.user
    IN updateSubscriptionMetadata(c, userId,
         [subscriptionId |-> e.subscription, plan |-> e.planId, status |-> "active"],
         failAt, failKind, t)

handleSubscriptionCreated(ctx, e, failAt, failKind, t) ==
  LET plan == getPlanByPriceId(e.priceId)
      found == getUserByEmail(ctx, e.email, failAt, failKind, t)
  IN IF plan = NULL \/ e.email = NULL THEN ctx
     ELSE IF ~found.ctx.ok \/ found.user = 0 THEN found.ctx
     ELSE setUserStatus(
            updateUserLimits(found.ctx, found.user, PLANS[plan].deviceLimit,
                             [subscriptionPlan |-> plan], failAt, failKind, t),
            found.user, FALSE, failAt, failKind, t)

(* The handler disabling the account on a payment issue *)
handleSubscriptionUpdated_DisablesOnPaymentIssue(ctx, e, failAt, failKind, t) ==
  LET plan == getPlanByPriceId(e.priceId)
      found == getUserByEmail(ctx, e.email, failAt, failKind, t)
  IN IF plan = NULL \/ e.email = NULL THEN ctx
     ELSE IF ~found.ctx.ok \/ found.user = 0 THEN found.ctx
     ELSE LET limited == updateUserLimits(found.ctx, found.user, PLANS[plan].deviceLimit,
                           [subscriptionPlan |-> plan, subscriptionStatus |-> e.status],
                           failAt, failKind, t)
          IN IF e.status \in {"unpaid", "past_due"}
               THEN setUserStatus(limited, found.user, TRUE, failAt, failKind, t)
             ELSE IF e.status = "active"
               THEN setUserStatus(limited, found.user, FALSE, failAt, failKind, t)
             ELSE limited

(* The handler writing the limit already stored for the user *)
handleSubscriptionUpdated_KeepsStoredLimit(ctx, e, failAt, failKind, t) ==
  LET plan == getPlanByPriceId(e.priceId)
      found == getUserByEmail(ctx, e.email, failAt, failKind, t)
  IN IF plan = NULL \/ e.email = NULL THEN ctx
     ELSE IF ~found.ctx.ok \/ found.user = 0 THEN found.ctx
     ELSE LET limited == updateUserLimits(found.ctx, found.user,
                           found.ctx.users[found.user].devicelimit,
                           [subscriptionPlan |-> plan, subscriptionStatus |-> e.status],
                           failAt, failKind, t)
          IN IF e.status \in {"unpaid", "past_due"} THEN limited
             ELSE IF e.status = "active"
               THEN setUserStatus(limited, found.user, FALSE, failAt, failKind, t)
             ELSE limited

handleSubscriptionUpdated(ctx, e, failAt, failKind, t) ==
  LET plan == getPlanByPriceId(e.priceId)
      found == getUserByEmail(ctx, e.email, failAt, failKind, t)
  IN IF plan = NULL \/ e.email = NULL THEN ctx
     ELSE IF ~found.ctx.ok \/ found.user = 0 THEN found.ctx
     ELSE LET limited == updateUserLimits(found.ctx, found.user, PLANS[plan].deviceLimit,
                           [subscriptionPlan |-> plan, subscriptionStatus |-> e.status],
                           failAt, failKind, t)
          IN IF e.status \in {"unpaid", "past_due"} THEN limited
             ELSE IF e.status = "active"
               THEN setUserStatus(limited, found.user, FALSE, failAt, failKind, t)
             ELSE limited

(* The handler flipping the disabled flag it finds *)
handleSubscriptionDeleted_Toggles(ctx, e, failAt, failKind, t) ==
  LET found == getUserByEmail(ctx, e.email, failAt, failKind, t)
  IN IF e.email = NULL THEN ctx
     ELSE IF ~found.ctx.ok \/ found.user = 0 THEN found.ctx
     ELSE updateUserLimits(
            setUserStatus(found.ctx, found.user, ~found.ctx.users[found.user].disabled,
                          failAt, failKind, t),
            found.user, 0, [subscriptionStatus |-> "canceled"], failAt, failKind, t)

handleSubscriptionDeleted(ctx, e, failAt, failKind, t) ==
  LET found == getUserByEmail(ctx, e.email, failAt, failKind, t)
  IN IF e.email = NULL THEN ctx
     ELSE IF ~found.ctx.ok \/ found.user = 0 THEN found.ctx
     ELSE updateUserLimits(
            setUserStatus(found.ctx, found.user, TRUE, failAt, failKind, t),
            found.user, 0, [subscriptionStatus |-> "canceled"], failAt, failKind, t)

(* The handler taking the limit away *)
handlePaymentFailed_ZeroLimit(ctx, e, failAt, failKind, t) ==
  LET found == getUserByEmail(ctx, e.email, failAt, failKind, t)
  IN IF e.email = NULL THEN ctx
     ELSE IF ~found.ctx.ok \/ found.user = 0 THEN found.ctx
     ELSE updateUserLimits(found.ctx, found.user, 0,
                           [subscriptionStatus |-> "payment_failed"], failAt, failKind, t)

(* lastPaymentAttempt and lastPaymentDate, timestamps, are left out *)
handlePaymentFailed(ctx, e, failAt, failKind, t) ==
  LET found == getUserByEmail(ctx, e.email, failAt, failKind, t)
  IN IF e.email = NULL THEN ctx
     ELSE IF ~found.ctx.ok \/ found.user = 0 THEN found.ctx
     ELSE updateUserLimits(found.ctx, found.user, found.ctx.users[found.user].devicelimit,
                           [subscriptionStatus |-> "payment_failed"], failAt, failKind, t)

handlePaymentSucceeded(ctx, e, failAt, failKind, t) ==
  LET found == getUserByEmail(ctx, e.email, failAt, failKind, t)
  IN IF e.email = NULL THEN ctx
     ELSE IF ~found.ctx.ok \/ found.user = 0 THEN found.ctx
     ELSE setUserStatus(
            updateUserLimits(found.ctx, found.user, found.ctx.users[found.user].devicelimit,
                             [subscriptionStatus |-> "active"], failAt, failKind, t),
            found.user, FALSE, failAt, failKind, t)

(* The switch with a default branch that throws *)
HandleEvent_DefaultThrows(ctx, e, loginWorks, failAt, failKind, t) ==
  CASE e.type = "checkout.session.completed" ->
         handleCheckoutCompleted(ctx, e, loginWorks, failAt, failKind, t)
    [] e.type = "customer.subscription.created" ->
         handleSubscriptionCreated(ctx, e, failAt, failKind, t)
    [] e.type = "customer.subscription.updated" ->
         handleSubscriptionUpdated(ctx, e, failAt, failKind, t)
    [] e.type = "customer.subscription.deleted" ->
         handleSubscriptionDeleted(ctx, e, failAt, failKind, t)
    [] e.type = "invoice.payment_failed" ->
         handlePaymentFailed(ctx, e, failAt, failKind, t)
    [] e.type = "invoice.payment_succeeded" ->
         handlePaymentSucceeded(ctx, e, failAt, failKind, t)
    [] OTHER -> [ctx EXCEPT !.ok = FALSE, !.error = "Error"]

(* The switch of router.post('/stripe'); other types are logged only *)
HandleEvent(ctx, e, loginWorks, failAt, failKind, t) ==
  CASE e.type = "checkout.session.completed" ->
         handleCheckoutCompleted(ctx, e, loginWorks, failAt, failKind, t)
    [] e.type = "customer.subscription.created" ->
         handleSubscriptionCreated(ctx, e, failAt, failKind, t)
    [] e.type = "customer.subscription.updated" ->
         handleSubscriptionUpdated(ctx, e, failAt, failKind, t)
    [] e.type = "customer.subscription.deleted" ->
         handleSubscriptionDeleted(ctx, e, failAt, failKind, t)
    [] e.type = "invoice.payment_failed" ->
         handlePaymentFailed(ctx, e, failAt, failKind, t)
    [] e.type = "invoice.payment_succeeded" ->
         handlePaymentSucceeded(ctx, e, failAt, failKind, t)
    [] OTHER -> ctx

(* The route without the early return on a bad signature *)
StripeWebhookRoute_NoVerify(users, sess, e, signatureValid, loginWorks, failAt, failKind, t) ==
  LET c == HandleEvent(Context(users, sess), e, loginWorks, failAt, failKind, t)
  IN [ctx |-> c, http |-> IF ~signatureValid THEN 400 ELSE IF c.ok THEN 200 ELSE 500]

(* The answer: 400 on a bad signature, 500 when the handler threw, else 200 *)
StripeWebhookRoute(users, sess, e, signatureValid, loginWorks, failAt, failKind, t) ==
  IF ~signatureValid
    THEN [ctx |-> Context(users, sess), http |-> 400]
    ELSE LET c == HandleEvent(Context(users, sess), e, loginWorks, failAt, failKind, t)
         IN [ctx |-> c, http |-> IF c.ok THEN 200 ELSE 500]

----------------------------------------------------------------------------
(* State *)

CurrentDb == Db(tc_users, tc_user_subscriptions, tc_subscription_history)


(* The store the server starts on: the Traccar database with one account   *)
(* and the subscription tables just created by the schema script           *)
Init ==
  /\ tc_users = <<UserRow(1, "old@x.com", -1)>>
  /\ tc_user_subscriptions = <<>>
  /\ tc_subscription_history = <<>>
  /\ tc_device_ownership = {}
  /\ tc_stripe_events = {}
  /\ traccarSession = NoSession
  /\ now = 1
  /\ last = [op |-> "start"]
  /\ client = NoCalls
  /\ tasks = NoTasks

SetDb(db) ==
  /\ Len(db.hist) <= MaxHistory
  /\ tc_users' = db.users
  /\ tc_user_subscriptions' = db.subs
  /\ tc_subscription_history' = db.hist

UpsertSubscription(dataSet) ==
  \E userId \in UserIds, d \in dataSet, fault \in UpsertFaults :
    \E r \in {upsertSubscription(CurrentDb, userId, d, fault)} :
       /\ SetDb(r.db)
       /\ last' = IF r.result = "ok"
                    THEN [op |-> "upsertSubscription", userId |-> userId, fault |-> fault,
                          result |-> "ok", id |-> r.id, data |-> d]
                    ELSE [op |-> "upsertSubscription", userId |-> userId, fault |-> fault,
                          result |-> "thrown"]
       /\ UNCHANGED <<tc_device_ownership, tc_stripe_events, traccarSession, now,
                   client, tasks>>

CancelSubscription ==
  \E userId \in UserIds, flag \in BOOLEAN, fault \in CancelFaults :
    \E r \in {cancelSubscription(CurrentDb, userId, flag, fault, now)} :
       /\ SetDb(r.db)
       /\ last' = [op |-> "cancelSubscription", userId |-> userId, flag |-> flag,
                   fault |-> fault, result |-> r.result]
       /\ UNCHANGED <<tc_device_ownership, tc_stripe_events, traccarSession, now,
                   client, tasks>>

EndSubscription ==
  \E userId \in UserIds, fault \in EndFaults :
    \E r \in {endSubscription(CurrentDb, userId, fault, now)} :
       /\ SetDb(r.db)
       /\ last' = [op |-> "endSubscription", userId |-> userId, fault |-> fault,
                   result |-> r.result]
       /\ UNCHANGED <<tc_device_ownership, tc_stripe_events, traccarSession, now,
                   client, tasks>>

HistoryEventTypes == {"note"}

AddSubscriptionHistory ==
  \E userId \in UserIds, eventType \in HistoryEventTypes, failed \in BOOLEAN :
    /\ \E db \in {addSubscriptionHistory(CurrentDb, userId, eventType, failed)} : SetDb(db)
    /\ last' = [op |-> "addSubscriptionHistory", userId |-> userId]
    /\ UNCHANGED <<tc_device_ownership, tc_stripe_events, traccarSession, now,
                   client, tasks>>

CanAddDevice ==
  \E userId \in UserIds :
    /\ last' = [op |-> "canAddDevice", userId |-> userId,
                result |-> canAddDevice(tc_user_subscriptions, tc_device_ownership, userId)]
    /\ UNCHANGED <<tc_users, tc_user_subscriptions, tc_subscription_history,
                   tc_device_ownership, tc_stripe_events, traccarSession, now,
                   client, tasks>>

SetDeviceOwner ==
  \E deviceId \in DeviceIds, ownerId \in UserIds :
    /\ IF UserExists(tc_users, ownerId)
         THEN /\ tc_device_ownership' = setDeviceOwner(tc_device_ownership, deviceId, ownerId)
              /\ last' = [op |-> "setDeviceOwner", deviceId |-> deviceId,
                          ownerId |-> ownerId, result |-> "ok"]
         ELSE /\ UNCHANGED tc_device_ownership
              /\ last' = [op |-> "setDeviceOwner", deviceId |-> deviceId,
                          ownerId |-> ownerId, result |-> "thrown"]
    /\ UNCHANGED <<tc_users, tc_user_subscriptions, tc_subscription_history,
                   tc_stripe_events, traccarSession, now,
                   client, tasks>>

EventIds == {"evt_1", "evt_2"}
ErrorMessages == {NULL, "Webhook processing failed"}

(* The eventData objects passed to logStripeEvent *)
EventData ==
  { [stripe_event_id |-> id, event_type |-> "invoice.payment_succeeded",
     processed |-> p, error_message |-> m] :
      id \in EventIds, p \in BOOLEAN, m \in ErrorMessages }

LogStripeEvent ==
  \E eventData \in EventData, failed \in BOOLEAN :
    /\ tc_stripe_events' = logStripeEvent(tc_stripe_events, eventData, failed, now)
    /\ last' = [op |-> "logStripeEvent", id |-> eventData.stripe_event_id,
                processed |-> eventData.processed, failed |-> failed, result |-> "ok"]
    /\ UNCHANGED <<tc_users, tc_user_subscriptions, tc_subscription_history,
                   tc_device_ownership, traccarSession, now,
                   client, tasks>>

MarkEventProcessed ==
  \E id \in EventIds, success \in BOOLEAN, errorMessage \in ErrorMessages,
     failed \in BOOLEAN :
    /\ tc_stripe_events' = markEventProcessed(tc_stripe_events, id, success,
                                              errorMessage, failed, now)
    /\ last' = [op |-> "markEventProcessed", id |-> id, processed |-> success,
                failed |-> failed, result |-> "ok"]
    /\ UNCHANGED <<tc_users, tc_user_subscriptions, tc_subscription_history,
                   tc_device_ownership, traccarSession, now,
                   client, tasks>>

(* Time passes *)
Tick ==
  /\ now < MaxNow
  /\ now' = now + 1
  /\ UNCHANGED <<tc_users, tc_user_subscriptions, tc_subscription_history,
                 tc_device_ownership, tc_stripe_events, traccarSession, last, client, tasks>>

(* request() is called: authenticate() returns the cached cookie, or      *)
(* sends POST /api/session                                                *)
CallRequest(c) ==
  /\ client.pc[c] = "idle"
  /\ IF SessionValid(traccarSession, now)
       THEN client' = [client EXCEPT !.pc[c] = "send"]
       ELSE /\ client.logins < MaxLogins
            /\ client' = [client EXCEPT !.pc[c] = "login", !.logins = @ + 1]
  /\ UNCHANGED <<tc_users, tc_user_subscriptions, tc_subscription_history,
                 tc_device_ownership, tc_stripe_events, traccarSession, now, last, tasks>>

LoginStatuses == {200, 401}

(* The login is answered: a session cookie cached for SessionTtl, or the  *)
(* plain Error authenticate() throws                                      *)
LoginResponse(c) ==
  \E status \in LoginStatuses :
    /\ client.pc[c] = "login"
    /\ IF status = 200
         THEN /\ traccarSession' = [sessionCookie |-> Cookies[client.issued + 1],
                                    sessionExpiry |-> now + SessionTtl]
              /\ client' = [client EXCEPT !.pc[c] = "send", !.answer[c] = status,
                                          !.own[c] = Cookies[client.issued + 1],
                                          !.issued = @ + 1]
         ELSE /\ client' = [client EXCEPT !.pc[c] = "done", !.answer[c] = status,
                                          !.result[c] = Thrown(FALSE, 0)]
              /\ UNCHANGED traccarSession
    /\ UNCHANGED <<tc_users, tc_user_subscriptions, tc_subscription_history,
                   tc_device_ownership, tc_stripe_events, now, last, tasks>>

(* After await this.authenticate(): the headers take this.sessionCookie   *)
(* and the fetch is sent                                                  *)
SendFetch(c) ==
  /\ client.pc[c] = "send"
  /\ client' = [client EXCEPT !.pc[c] = "fetch", !.cookie[c] = traccarSession.sessionCookie]
  /\ UNCHANGED <<tc_users, tc_user_subscriptions, tc_subscription_history,
                 tc_device_ownership, tc_stripe_events, traccarSession, now, last, tasks>>

FetchStatuses == {200, 401, 500}

(* The fetch is answered: the value, or an error marked traccarError with *)
(* the status                                                             *)
FetchResponse(c) ==
  \E status \in FetchStatuses :
    /\ client.pc[c] = "fetch"
    /\ client' = [client EXCEPT !.pc[c] = "done", !.answer[c] = status,
                                !.result[c] = IF status = 200 THEN Returned
                                              ELSE Thrown(TRUE, status)]
    /\ UNCHANGED <<tc_users, tc_user_subscriptions, tc_subscription_history,
                   tc_device_ownership, tc_stripe_events, traccarSession, now, last, tasks>>

(* The caller takes the outcome; it may call again *)
ReturnToCaller(c) ==
  /\ client.pc[c] = "done"
  /\ client' = [client EXCEPT !.pc[c] = "idle", !.own[c] = NULL, !.cookie[c] = NULL,
                              !.answer[c] = 0, !.result[c] = Pending]
  /\ UNCHANGED <<tc_users, tc_user_subscriptions, tc_subscription_history,
                 tc_device_ownership, tc_stripe_events, traccarSession, now, last, tasks>>

(* upsertSubscription called while other calls are in progress: the       *)
(* connection, beginTransaction and the SELECT, which reads the committed *)
(* rows without locking them                                              *)
UpsertSelect(h, dataSet) ==
  \E userId \in UserIds, d \in dataSet, failed \in BOOLEAN :
    /\ tasks.upsert[h].pc = "idle"
    /\ tasks' = [tasks EXCEPT !.upsert[h] =
                   IF failed
                     THEN [IdleUpsert EXCEPT !.pc = "thrown", !.userId = userId]
                     ELSE [pc |-> "selected", userId |-> userId, data |-> d,
                           existing |-> ExistingRows(tc_user_subscriptions, userId),
                           id |-> 0]]
    /\ UNCHANGED <<tc_users, tc_user_subscriptions, tc_subscription_history,
                   tc_device_ownership, tc_stripe_events, traccarSession, now, last,
                   client>>

WriteFaults == UpsertFaults \ {"select"}

(* The rest of the transaction.  Its write locks the rows it touches (the *)
(* tc_users row through the sync) until the commit or rollback, so the    *)
(* writes of two transactions do not interleave: write, sync and commit   *)
(* are one step, on the rows committed by then.                           *)
UpsertWrite(h) ==
  \E fault \in WriteFaults :
    /\ tasks.upsert[h].pc = "selected"
    /\ \E r \in {upsertAfterSelect(CurrentDb, tasks.upsert[h].userId, tasks.upsert[h].data,
                                     tasks.upsert[h].existing, fault)} :
         /\ SetDb(r.db)
         /\ tasks' = [tasks EXCEPT !.upsert[h].pc = IF r.result = "ok" THEN "done" ELSE "thrown",
                                   !.upsert[h].id = r.id]
    /\ UNCHANGED <<tc_device_ownership, tc_stripe_events, traccarSession, now, last,
                   client>>

(* The caller takes the subscriptionId or the error; it may call again *)
UpsertReturn(h) ==
  /\ tasks.upsert[h].pc \in {"done", "thrown"}
  /\ tasks' = [tasks EXCEPT !.upsert[h] = IdleUpsert]
  /\ UNCHANGED <<tc_users, tc_user_subscriptions, tc_subscription_history,
                 tc_device_ownership, tc_stripe_events, traccarSession, now, last,
                 client>>

(* The checkout sessions delivered at once: one subscription and plan,    *)
(* for an email without an account or for the existing account            *)
CheckoutEmails == {"new@x.com", "old@x.com"}

CheckoutSession(email) ==
  StripeEvent("checkout.session.completed", email, "sub_B", "basic", "30", NULL, NULL)

(* A verified checkout.session.completed reaches handleCheckoutCompleted, *)
(* which sends the GET /api/users of getUserByEmail                       *)
CheckoutReceived(h) ==
  \E email \in CheckoutEmails :
    /\ tasks.checkout[h].pc = "idle"
    /\ tasks' = [tasks EXCEPT !.checkout[h] = [IdleCheckout EXCEPT !.pc = "lookup",
                                                                   !.email = email]]
    /\ UNCHANGED <<tc_users, tc_user_subscriptions, tc_subscription_history,
                   tc_device_ownership, tc_stripe_events, traccarSession, now, last,
                   client>>

(* The list of accounts is answered: the handler goes on to create the    *)
(* account when users.find gave none, else to the metadata update; a      *)
(* failed request is thrown to the route                                  *)
CheckoutLookup(h) ==
  \E ok \in BOOLEAN :
    /\ tasks.checkout[h].pc = "lookup"
    /\ tasks' = [tasks EXCEPT !.checkout[h] =
                   IF ~ok THEN [@ EXCEPT !.pc = "failed"]
                   ELSE LET user == FindByEmail(tc_users, @.email)
                        IN [@ EXCEPT !.pc = IF user = 0 THEN "create" ELSE "meta_get",
                                     !.user = user]]
    /\ UNCHANGED <<tc_users, tc_user_subscriptions, tc_subscription_history,
                   tc_device_ownership, tc_stripe_events, traccarSession, now, last,
                   client>>

(* POST /api/users is answered.  Traccar's answer to an email that an     *)
(* account already has is not fixed by this server: it creates a second   *)
(* account or refuses.  After the creation the handler tests the login    *)
(* and may PUT the record back with the password, which leave the         *)
(* directory as it is.                                                    *)
CheckoutCreate(h) ==
  \E ok \in BOOLEAN :
    /\ tasks.checkout[h].pc = "create"
    /\ IF ok
         THEN /\ Len(tc_users) < MaxAccounts
              /\ \E c \in {createUser(Context(tc_users, traccarSession),
                                       tasks.checkout[h].email,
                                       parseInt(CheckoutSession(tasks.checkout[h].email).deviceLimit),
                                       0, "http", now)} :
                   tc_users' = c.users
              /\ tasks' = [tasks EXCEPT !.checkout[h].pc = "meta_get",
                                        !.checkout[h].user = Len(tc_users) + 1]
         ELSE /\ tasks' = [tasks EXCEPT !.checkout[h].pc = "failed"]
              /\ UNCHANGED tc_users
    /\ UNCHANGED <<tc_user_subscriptions, tc_subscription_history,
                   tc_device_ownership, tc_stripe_events, traccarSession, now, last,
                   client>>

(* updateSubscriptionMetadata: GET /api/users/{id} is answered *)
CheckoutMetadataGet(h) ==
  \E ok \in BOOLEAN :
    /\ tasks.checkout[h].pc = "meta_get"
    /\ tasks' = [tasks EXCEPT !.checkout[h] =
                   IF ok THEN [@ EXCEPT !.pc = "meta_put",
                                        !.record = tc_users[tasks.checkout[h].user]]
                   ELSE [@ EXCEPT !.pc = "failed"]]
    /\ UNCHANGED <<tc_users, tc_user_subscriptions, tc_subscription_history,
                   tc_device_ownership, tc_stripe_events, traccarSession, now, last,
                   client>>

(* updateSubscriptionMetadata: the PUT of the fetched record with the     *)
(* subscription attributes is answered                                    *)
CheckoutMetadataPut(h) ==
  \E ok \in BOOLEAN :
    /\ tasks.checkout[h].pc = "meta_put"
    /\ IF ok
         THEN /\ tc_users' = [tc_users EXCEPT ![tasks.checkout[h].user] =
                   [tasks.checkout[h].record EXCEPT !.attributes =
                      [@ EXCEPT !.stripeSubscriptionId =
                                  CheckoutSession(tasks.checkout[h].email).subscription,
                                !.subscriptionPlan =
                                  CheckoutSession(tasks.checkout[h].email).planId,
                                !.subscriptionStatus = "active"]]]
              /\ tasks' = [tasks EXCEPT !.checkout[h].pc = "done"]
         ELSE /\ tasks' = [tasks EXCEPT !.checkout[h].pc = "failed"]
              /\ UNCHANGED tc_users
    /\ UNCHANGED <<tc_user_subscriptions, tc_subscription_history,
                   tc_device_ownership, tc_stripe_events, traccarSession, now, last,
                   client>>

(* The route answers 200, or 500 for a thrown error *)
CheckoutAnswered(h) ==
  /\ tasks.checkout[h].pc \in {"done", "failed"}
  /\ tasks' = [tasks EXCEPT !.checkout[h] = IdleCheckout]
  /\ UNCHANGED <<tc_users, tc_user_subscriptions, tc_subscription_history,
                 tc_device_ownership, tc_stripe_events, traccarSession, now, last,
                 client>>

(* The directory updates the handlers make: those of                       *)
(* handleSubscriptionDeleted and the enabling of handlePaymentSucceeded    *)
DirectoryCalls ==
  { [method |-> "updateUserLimits", deviceLimit |-> 0, subscriptionStatus |-> "canceled",
     disabled |-> FALSE],
    [method |-> "setUserStatus", deviceLimit |-> 0, subscriptionStatus |-> NULL,
     disabled |-> TRUE],
    [method |-> "setUserStatus", deviceLimit |-> 0, subscriptionStatus |-> NULL,
     disabled |-> FALSE] }

(* updatedUser: {...user, deviceLimit, attributes: {...user.attributes,    *)
(* ...attributes}} in updateUserLimits, {...user, disabled} in             *)
(* setUserStatus                                                           *)
updatedUser(user, call) ==
  IF call.method = "updateUserLimits"
    THEN [user EXCEPT !.devicelimit = call.deviceLimit,
                      !.attributes.subscriptionStatus = call.subscriptionStatus]
    ELSE [user EXCEPT !.disabled = call.disabled]

(* A PUT that changes the call's own fields of the record as stored *)
PutBody_Patch(fetched, stored, call) == updatedUser(stored, call)

(* The body of PUT /api/users/{id}: the record the GET returned, with the  *)
(* call's fields set; the server stores it whole                           *)
PutBody(fetched, stored, call) == updatedUser(fetched, call)

(* updateUserLimits or setUserStatus is called *)
UpdateCalled(h) ==
  \E u \in 1..Len(tc_users), call \in DirectoryCalls :
    /\ tasks.update[h].pc = "idle"
    /\ tasks' = [tasks EXCEPT !.update[h] =
                   [pc |-> "get", userId |-> u, call |-> call, record |-> NULL]]
    /\ UNCHANGED <<tc_users, tc_user_subscriptions, tc_subscription_history,
                   tc_device_ownership, tc_stripe_events, traccarSession, now, last,
                   client>>

(* getUserById: GET /api/users/{id} is answered, or fails *)
UpdateGet(h) ==
  \E ok \in BOOLEAN :
    /\ tasks.update[h].pc = "get"
    /\ tasks' = [tasks EXCEPT !.update[h] =
                   IF ok THEN [@ EXCEPT !.pc = "put",
                                        !.record = tc_users[tasks.update[h].userId]]
                   ELSE [@ EXCEPT !.pc = "failed"]]
    /\ UNCHANGED <<tc_users, tc_user_subscriptions, tc_subscription_history,
                   tc_device_ownership, tc_stripe_events, traccarSession, now, last,
                   client>>

(* PUT /api/users/{id} with updatedUser is answered, or fails *)
UpdatePut(h) ==
  \E ok \in BOOLEAN :
    /\ tasks.update[h].pc = "put"
    /\ IF ok
         THEN /\ tc_users' = [tc_users EXCEPT ![tasks.update[h].userId] =
                   PutBody(tasks.update[h].record, tc_users[tasks.update[h].userId],
                           tasks.update[h].call)]
              /\ tasks' = [tasks EXCEPT !.update[h].pc = "done"]
         ELSE /\ tasks' = [tasks EXCEPT !.update[h].pc = "failed"]
              /\ UNCHANGED tc_users
    /\ UNCHANGED <<tc_user_subscriptions, tc_subscription_history,
                   tc_device_ownership, tc_stripe_events, traccarSession, now, last,
                   client>>

(* The call returns updatedUser, or throws *)
UpdateReturned(h) ==
  /\ tasks.update[h].pc \in {"done", "failed"}
  /\ tasks' = [tasks EXCEPT !.update[h] = IdleUpdate]
  /\ UNCHANGED <<tc_users, tc_user_subscriptions, tc_subscription_history,
                 tc_device_ownership, tc_stripe_events, traccarSession, now, last,
                 client>>

(* canAddDevice is called: database.query runs the CALL on a connection   *)
(* the pool hands out, which leaves the three results in that connection's *)
(* session variables                                                       *)
CanAddDeviceCall(h, users) ==
  \E u \in users, c \in Connections :
    \E result \in {sp_can_add_device(tc_user_subscriptions, tc_device_ownership, u)} :
      /\ tasks.device[h].pc = "idle"
      /\ tasks' = [tasks EXCEPT !.device[h] = [pc |-> "select", userId |-> u,
                                               own |-> result, verdict |-> NULL],
                                !.connections[c] = result]
      /\ UNCHANGED <<tc_users, tc_user_subscriptions, tc_subscription_history,
                     tc_device_ownership, tc_stripe_events, traccarSession, now, last,
                     client>>

(* database.queryOne runs SELECT @can_add, @message, @remaining on a       *)
(* connection the pool hands out, and canAddDevice returns                 *)
CanAddDeviceSelect(h) ==
  \E c \in Connections :
    /\ tasks.device[h].pc = "select"
    /\ tasks' = [tasks EXCEPT !.device[h].pc = "checked",
                              !.device[h].verdict = VerdictOf(tasks.connections[c])]
    /\ UNCHANGED <<tc_users, tc_user_subscriptions, tc_subscription_history,
                   tc_device_ownership, tc_stripe_events, traccarSession, now, last,
                   client>>

(* The caller, allowed, records a device no one owns yet: setDeviceOwner *)
DeviceOwned(h) ==
  \E d \in DeviceIds :
    /\ tasks.device[h].pc = "checked"
    /\ tasks.device[h].verdict.canAdd
    /\ OwnershipRows(tc_device_ownership, d) = {}
    /\ tc_device_ownership' = setDeviceOwner(tc_device_ownership, d, tasks.device[h].userId)
    /\ tasks' = [tasks EXCEPT !.device[h].pc = "done"]
    /\ UNCHANGED <<tc_users, tc_user_subscriptions, tc_subscription_history,
                   tc_stripe_events, traccarSession, now, last, client>>

(* The caller is done *)
DeviceReturned(h) ==
  /\ tasks.device[h].pc \in {"checked", "done"}
  /\ tasks' = [tasks EXCEPT !.device[h] = IdleDevice]
  /\ UNCHANGED <<tc_users, tc_user_subscriptions, tc_subscription_history,
                 tc_device_ownership, tc_stripe_events, traccarSession, now, last,
                 client>>

(* POST /billing/checkout *)
PostCheckout ==
  \E body \in CheckoutBodies :
    \E r \in {CheckoutRoute(body)} :
      /\ Cardinality(tasks.sessions \cup r.sessions) <= MaxSessions
      /\ tasks' = [tasks EXCEPT !.sessions = @ \cup r.sessions]
      /\ last' = [op |-> "checkout", body |-> body, http |-> r.http]
      /\ UNCHANGED <<tc_users, tc_user_subscriptions, tc_subscription_history,
                     tc_device_ownership, tc_stripe_events, traccarSession, now, client>>

(* The events Stripe sends for a paid session: checkout.session.completed  *)
(* with the session's metadata, customer.subscription.created with the     *)
(* line item's price and subscription_data.metadata                        *)
SessionCompleted(s) ==
  StripeEvent("checkout.session.completed", s.customer_email, "sub_B",
              s.metadata.planId, s.metadata.deviceLimit, NULL, NULL)

SubscriptionCreatedOf(s) ==
  StripeEvent("customer.subscription.created", s.subscription_metadata.userEmail,
              NULL, NULL, NULL, s.price, "active")

SessionEvents ==
  UNION {{SessionCompleted(s), SubscriptionCreatedOf(s)} : s \in tasks.sessions}

(* POST /webhooks/stripe.  attempt counts the consecutive deliveries of    *)
(* the same event id, this one included; failed says that a request() of  *)
(* the handler threw (failAt is at most the number of requests it makes). *)
StripeWebhook(events) ==
  \E e \in events, signatureValid \in BOOLEAN :
    \E loginWorks \in IF /\ signatureValid
                         /\ e.type = "checkout.session.completed"
                         /\ e.subscription # NULL
                         /\ FindByEmail(tc_users, e.email) = 0
                        THEN BOOLEAN ELSE {TRUE} :
      \E failAt \in IF signatureValid
                      THEN 0..StripeWebhookRoute(tc_users, traccarSession, e, TRUE,
                                                 loginWorks, 0, "http", now).ctx.n
                      ELSE {0} :
        \E failKind \in IF failAt = 1 /\ ~SessionValid(traccarSession, now)
                          THEN {"http", "auth"} ELSE {"http"} :
          \E r \in {StripeWebhookRoute(tc_users, traccarSession, e, signatureValid,
                                       loginWorks, failAt, failKind, now)} :
             /\ Len(r.ctx.users) <= MaxUsers
             /\ tc_users' = r.ctx.users
             /\ traccarSession' = r.ctx.session
             /\ last' = [op |-> "webhook", event |-> e, verified |-> signatureValid,
                         attempt |-> IF last.op = "webhook" /\ last.verified /\ signatureValid
                                        /\ last.event.id = e.id /\ last.attempt < MaxDeliveries
                                       THEN last.attempt + 1 ELSE 1,
                         http |-> r.http, calls |-> r.ctx.calls, failed |-> failAt # 0]
             /\ UNCHANGED <<tc_user_subscriptions, tc_subscription_history,
                            tc_device_ownership, tc_stripe_events, now,
                   client, tasks>>

----------------------------------------------------------------------------
(* Specifications *)

(* The repository under sequential calls of its operations, on a store    *)
(* with one account: user id 2 is an id no tc_users row has                *)
RepoData ==
  PlanData("basic", {"active", "trialing", "canceled"}, {"sub_A"})
    \cup PlanData("moderate", {"active"}, {"sub_A"})

Next ==
  \/ UpsertSubscription(RepoData)
  \/ CancelSubscription
  \/ EndSubscription
  \/ AddSubscriptionHistory

Spec == Init /\ [][Next]_vars

(* Sequential upsert, cancel and end calls for two accounts *)
InitTwoUsers ==
  /\ Init!2 /\ Init!3 /\ Init!4 /\ Init!5 /\ Init!6 /\ Init!7 /\ Init!8 /\ Init!9
  /\ Init!10
  /\ tc_users = <<UserRow(1, "old@x.com", -1), UserRow(2, "new@x.com", -1)>>

(* Rows without a Stripe subscription id (the column is nullable) *)
TwoUsersData == Data({"basic"}, {"active", "trialing"}, {PLANS["basic"].deviceLimit}, {NULL})

NextTwoUsers ==
  \/ UpsertSubscription(TwoUsersData)
  \/ CancelSubscription
  \/ EndSubscription

SpecTwoUsers == InitTwoUsers /\ [][NextTwoUsers]_vars

(* Device ownership and the device-limit check *)
DeviceData == Data({"basic"}, {"active", "trialing"}, {1, PLANS["basic"].deviceLimit}, {"sub_A"})

NextDevices ==
  \/ UpsertSubscription(DeviceData)
  \/ EndSubscription
  \/ SetDeviceOwner
  \/ CanAddDevice

SpecDevices == Init /\ [][NextDevices]_vars

(* Webhook deliveries, with a subscription the upstream API layer upserts *)
WebhookEvents ==
  { StripeEvent("checkout.session.completed", "new@x.com", "sub_B", "basic", "30", NULL, NULL),
    StripeEvent("checkout.session.completed", "new@x.com", NULL, "basic", "30", NULL, NULL),
    StripeEvent("customer.subscription.created", "old@x.com", NULL, NULL, NULL, "price_basic", "active"),
    StripeEvent("customer.subscription.created", "old@x.com", NULL, NULL, NULL, "price_gone", "active"),
    StripeEvent("customer.subscription.updated", "old@x.com", NULL, NULL, NULL, "price_moderate", "active"),
    StripeEvent("customer.subscription.updated", "old@x.com", NULL, NULL, NULL, "price_moderate", "past_due"),
    StripeEvent("customer.subscription.deleted", "old@x.com", NULL, NULL, NULL, NULL, NULL),
    StripeEvent("customer.subscription.deleted", "gone@x.com", NULL, NULL, NULL, NULL, NULL),
    StripeEvent("invoice.payment_failed", "old@x.com", NULL, NULL, NULL, NULL, NULL),
    StripeEvent("invoice.payment_succeeded", "old@x.com", NULL, NULL, NULL, NULL, NULL),
    StripeEvent("customer.created", "old@x.com", NULL, NULL, NULL, NULL, NULL) }

WebhookData == PlanData("basic", {"active"}, {"sub_A"})

NextWebhook ==
  \/ StripeWebhook(WebhookEvents)
  \/ UpsertSubscription(WebhookData)

SpecWebhook == Init /\ [][NextWebhook]_vars

(* Checkout requests, and the deliveries of the events of the sessions    *)
(* they created and of a session created outside the route (a payment     *)
(* link), whose metadata is empty                                          *)
PaymentLinkEvents ==
  {StripeEvent("checkout.session.completed", "new@x.com", "sub_C", NULL, NULL, NULL, NULL)}

NextProvision ==
  \/ PostCheckout
  \/ StripeWebhook(SessionEvents \cup PaymentLinkEvents)

SpecProvision == Init /\ [][NextProvision]_vars

(* Deliveries of the subscription lifecycle events of one account, by     *)
(* plan and by status                                                     *)
DirectoryEvents ==
  { StripeEvent("customer.subscription.created", "old@x.com", NULL, NULL, NULL, "price_basic", "active"),
    StripeEvent("customer.subscription.created", "old@x.com", NULL, NULL, NULL, "price_advance", "active"),
    StripeEvent("customer.subscription.updated", "old@x.com", NULL, NULL, NULL, "price_moderate", "active"),
    StripeEvent("customer.subscription.updated", "old@x.com", NULL, NULL, NULL, "price_moderate", "past_due"),
    StripeEvent("customer.subscription.updated", "old@x.com", NULL, NULL, NULL, "price_moderate", "unpaid"),
    StripeEvent("customer.subscription.updated", "old@x.com", NULL, NULL, NULL, "price_advance", "active"),
    StripeEvent("customer.subscription.deleted", "old@x.com", NULL, NULL, NULL, NULL, NULL),
    StripeEvent("invoice.payment_failed", "old@x.com", NULL, NULL, NULL, NULL, NULL) }

NextDirectory ==
  \/ StripeWebhook(DirectoryEvents)
  \/ UpsertSubscription(WebhookData)

SpecDirectory == Init /\ [][NextDirectory]_vars

(* Ownership transfers between two accounts *)
NextOwnership ==
  \/ SetDeviceOwner
  \/ CanAddDevice

SpecOwnership == InitTwoUsers /\ [][NextOwnership]_vars

(* Upserts for two accounts with the Stripe customer and subscription ids *)
(* varying                                                                *)
StripeCustomerIds == {"cus_A", "cus_B"}

StripeIdData ==
  { [d EXCEPT !.stripe_customer_id = c] :
      d \in PlanData("basic", {"active"}, {"sub_A", "sub_B"}), c \in StripeCustomerIds }

NextStripeIds ==
  \/ UpsertSubscription(StripeIdData)
  \/ EndSubscription

SpecStripeIds == InitTwoUsers /\ [][NextStripeIds]_vars

(* Checkout deliveries handled at once *)
NextCheckouts ==
  \/ \E h \in Handlers : CheckoutReceived(h)
  \/ \E h \in Handlers : CheckoutLookup(h)
  \/ \E h \in Handlers : CheckoutCreate(h)
  \/ \E h \in Handlers : CheckoutMetadataGet(h)
  \/ \E h \in Handlers : CheckoutMetadataPut(h)
  \/ \E h \in Handlers : CheckoutAnswered(h)

SpecCheckouts == Init /\ [][NextCheckouts]_vars

(* Two accounts, the first with an active subscription of one device, as *)
(* upsertSubscription leaves it                                           *)
OneDeviceData == CHOOSE d \in Data({"basic"}, {"active"}, {1}, {"sub_A"}) : TRUE

SubscribedDb ==
  upsertSubscription(Db(<<UserRow(1, "old@x.com", -1), UserRow(2, "new@x.com", -1)>>,
                        <<>>, <<>>),
                     1, OneDeviceData, "none").db

InitSubscribed ==
  /\ tc_users = SubscribedDb.users
  /\ tc_user_subscriptions = SubscribedDb.subs
  /\ tc_subscription_history = SubscribedDb.hist
  /\ Init!4 /\ Init!5 /\ Init!6 /\ Init!7 /\ Init!8 /\ Init!9 /\ Init!10

(* canAddDevice calls for the two accounts made at once over the pool *)
NextPool ==
  \/ \E h \in Handlers : CanAddDeviceCall(h, 1..Len(tc_users))
  \/ \E h \in Handlers : CanAddDeviceSelect(h)
  \/ \E h \in Handlers : DeviceReturned(h)

SpecPool == InitSubscribed /\ [][NextPool]_vars

(* Callers adding devices to the subscribed account at once *)
NextDeviceRace ==
  \/ \E h \in Handlers : CanAddDeviceCall(h, {1})
  \/ \E h \in Handlers : CanAddDeviceSelect(h)
  \/ \E h \in Handlers : DeviceOwned(h)
  \/ \E h \in Handlers : DeviceReturned(h)

SpecDeviceRace == InitSubscribed /\ [][NextDeviceRace]_vars

(* Directory updates of one account made at once *)
NextUpdates ==
  \/ \E h \in Handlers : UpdateCalled(h)
  \/ \E h \in Handlers : UpdateGet(h)
  \/ \E h \in Handlers : UpdatePut(h)
  \/ \E h \in Handlers : UpdateReturned(h)

SpecUpdates == Init /\ [][NextUpdates]_vars

(* upsertSubscription calls made at once, with differing Stripe           *)
(* subscription ids                                                       *)
RaceData == PlanData("basic", {"active"}, {"sub_A", "sub_B"})

NextUpserts ==
  \/ \E h \in Handlers : UpsertSelect(h, RaceData)
  \/ \E h \in Handlers : UpsertWrite(h)
  \/ \E h \in Handlers : UpsertReturn(h)

SpecUpserts == Init /\ [][NextUpserts]_vars

(* The event store under sequential logStripeEvent and markEventProcessed *)
(* calls                                                                  *)
NextEvents ==
  \/ LogStripeEvent
  \/ MarkEventProcessed
  \/ Tick

SpecEvents == Init /\ [][NextEvents]_vars

(* Overlapping request() calls on the one TraccarClient *)
NextClient ==
  \/ \E c \in Callers : CallRequest(c)
  \/ \E c \in Callers : LoginResponse(c)
  \/ \E c \in Callers : SendFetch(c)
  \/ \E c \in Callers : FetchResponse(c)
  \/ \E c \in Callers : ReturnToCaller(c)
  \/ Tick

SpecClient == Init /\ [][NextClient]_vars

----------------------------------------------------------------------------
(* Properties *)

IsPrefix(s, t) == Len(s) <= Len(t) /\ SubSeq(t, 1, Len(s)) = s

(* The rows a step appended to the history *)
Appended == SubSeq(tc_subscription_history', Len(tc_subscription_history) + 1,
                   Len(tc_subscription_history'))

(* How many of the appended rows have the event type *)
AppendedOfType(type) ==
  Cardinality({i \in 1..Len(Appended) : Appended[i].event_type = type})

TheRow(subs, u) == subs[First(RowsOfUser(subs, u))]

UpsertStep(u) == last'.op = "upsertSubscription" /\ last'.userId = u

WebhookStep == last'.op = "webhook" /\ last'.verified

(* C1 as claimed: a verified delivery of the event id whose previous       *)
(* delivery was accepted makes no directory call and changes no            *)
(* subscription row, history row or directory record                      *)
C1_DuplicateDeliveryIsNoOp ==
  [][( /\ WebhookStep
       /\ last.op = "webhook" /\ last.verified /\ last.http = 200
       /\ last'.event.id = last.event.id )
     => /\ last'.calls = 0
        /\ tc_user_subscriptions' = tc_user_subscriptions
        /\ tc_subscription_history' = tc_subscription_history
        /\ tc_users' = tc_users
    ]_vars

(* The second accepted delivery of invoice.payment_succeeded repeats the   *)
(* directory calls of the first                                            *)
C1_Witness ==
  /\ last.op = "webhook" /\ last.verified /\ last.attempt = 2 /\ last.http = 200
  /\ last.event.type = "invoice.payment_succeeded"
  /\ last.calls > 0

(* C2: under sequential upsert, cancel and end calls every user has at most *)
(* one subscription row whose status is active or trialing                  *)
C2_AtMostOneActiveRow ==
  \A u \in UserIds : Cardinality(ActiveRowsOfUser(tc_user_subscriptions, u)) <= 1

(* Both users hold an active or trialing row, one of them rewritten in place *)
C2_Witness ==
  /\ \A u \in UserIds : Cardinality(ActiveRowsOfUser(tc_user_subscriptions, u)) = 1
  /\ last.op = "upsertSubscription" /\ last.result = "ok"
  /\ \E i \in 1..Len(tc_subscription_history) :
       /\ tc_subscription_history[i].event_type = "status_changed"
       /\ tc_subscription_history[i].userid = last.userId

OwnedDevices(u) == {r.deviceid : r \in {x \in tc_device_ownership : x.ownerid = u}}

(* C3: canAddDevice answers not allowed, 0 remaining and 'No active         *)
(* subscription found' for a user without an active or trialing row;       *)
(* otherwise not allowed with 0 remaining exactly when the owned-device    *)
(* count is at least the row's device_limit, and allowed with              *)
(* device_limit minus the count remaining in every other case              *)
C3_CanAddDevice ==
  last.op = "canAddDevice" =>
    LET u == last.userId
        r == last.result
        active == ActiveRowsOfUser(tc_user_subscriptions, u)
        limit == tc_user_subscriptions[First(active)].device_limit
        count == Cardinality(OwnedDevices(u))
    IN IF active = {}
         THEN /\ ~r.canAdd /\ r.remaining = 0
              /\ r.message = "No active subscription found"
         ELSE /\ r.message # "No active subscription found"
              /\ (~r.canAdd /\ r.remaining = 0) <=> (count >= limit)
              /\ count < limit => (r.canAdd /\ r.remaining = limit - count)

(* The count equals the limit *)
C3_Witness ==
  /\ last.op = "canAddDevice"
  /\ ActiveRowsOfUser(tc_user_subscriptions, last.userId) # {}
  /\ Cardinality(OwnedDevices(last.userId)) =
       tc_user_subscriptions[First(ActiveRowsOfUser(tc_user_subscriptions, last.userId))].device_limit
  /\ ~last.result.canAdd

(* C4 as claimed: an accepted checkout.session.completed with plan basic   *)
(* for an email without a directory account creates the account, inserts  *)
(* a subscription row for it with status active and device_limit 30, and   *)
(* appends exactly one subscription_created history row                    *)
C4_CheckoutProvisionsSubscription ==
  [][( /\ WebhookStep /\ last'.http = 200
       /\ last'.event.type = "checkout.session.completed"
       /\ last'.event.subscription # NULL
       /\ last'.event.planId = "basic"
       /\ FindByEmail(tc_users, last'.event.email) = 0 )
     => LET u == FindByEmail(tc_users', last'.event.email)
        IN /\ u # 0
           /\ RowsOfUser(tc_user_subscriptions, u) = {}
           /\ RowsOfUser(tc_user_subscriptions', u) # {}
           /\ TheRow(tc_user_subscriptions', u).status = "active"
           /\ TheRow(tc_user_subscriptions', u).device_limit = PLANS["basic"].deviceLimit
           /\ AppendedOfType("subscription_created") = 1
    ]_vars

(* The account is created and no subscription row exists for it *)
C4_Witness ==
  /\ last.op = "webhook" /\ last.verified /\ last.http = 200 /\ last.attempt = 1
  /\ last.event.type = "checkout.session.completed"
  /\ FindByEmail(tc_users, "new@x.com") = 2
  /\ tc_users[2].attributes.subscriptionStatus = "active"
  /\ RowsOfUser(tc_user_subscriptions, 2) = {}

(* C5 as claimed: an accepted customer.subscription.deleted for a user     *)
(* whose subscription row is active leaves the row with status canceled    *)
(* and device_limit 0, and the directory account disabled                  *)
C5_DeletedCancelsSubscription ==
  [][\A u \in UserIds :
       ( /\ WebhookStep /\ last'.http = 200
         /\ last'.event.type = "customer.subscription.deleted"
         /\ FindByEmail(tc_users, last'.event.email) = u
         /\ RowsOfUser(tc_user_subscriptions, u) # {}
         /\ TheRow(tc_user_subscriptions, u).status = "active" )
       => /\ TheRow(tc_user_subscriptions', u).status = "canceled"
          /\ TheRow(tc_user_subscriptions', u).device_limit = 0
          /\ tc_users'[u].disabled
    ]_vars

(* The directory account is disabled and the row is still active *)
C5_Witness ==
  /\ last.op = "webhook" /\ last.verified /\ last.http = 200
  /\ last.event.type = "customer.subscription.deleted"
  /\ tc_users[1].disabled /\ tc_users[1].devicelimit = 0
  /\ RowsOfUser(tc_user_subscriptions, 1) # {}
  /\ TheRow(tc_user_subscriptions, 1).status = "active"

(* C10 as claimed: a verified delivery during which a directory call fails *)
(* is answered 200 and its event is marked processed in tc_stripe_events   *)
C10_DirectoryFailureStillProcessed ==
  [][(WebhookStep /\ last'.failed)
     => /\ last'.http = 200
        /\ \E ev \in tc_stripe_events' :
             ev.stripe_event_id = last'.event.id /\ ev.processed
    ]_vars

(* A directory failure answered 500, with nothing in the event store *)
C10_Witness ==
  /\ last.op = "webhook" /\ last.verified /\ last.failed /\ last.http = 500
  /\ tc_stripe_events = {}

HandledTypes ==
  {"checkout.session.completed", "customer.subscription.created",
   "customer.subscription.updated", "customer.subscription.deleted",
   "invoice.payment_failed", "invoice.payment_succeeded"}

(* What a delivery can write: the directory, the client's session, the     *)
(* subscription rows, the history and the event store                      *)
written == <<tc_users, traccarSession, tc_user_subscriptions,
             tc_subscription_history, tc_stripe_events>>

(* C11: a delivery whose signature verification fails is answered 400, and *)
(* no handler runs for it: no directory call is made, and the directory,   *)
(* the client's session and the repository tables are left as they were    *)
C11_BadSignatureRejected ==
  [][(last'.op = "webhook" /\ ~last'.verified)
     => /\ last'.http = 400
        /\ last'.calls = 0
        /\ UNCHANGED written
    ]_vars

(* A rejected delivery of an event that would have changed the directory *)
C11_Witness ==
  /\ last.op = "webhook" /\ ~last.verified /\ last.http = 400
  /\ last.event.type = "customer.subscription.deleted"
  /\ last.event.email = "old@x.com"
  /\ ~tc_users[1].disabled

(* C12: a verified event of a type outside the six handled ones is         *)
(* answered 200, with no error, no directory call and nothing written      *)
C12_UnknownTypeAccepted ==
  [][(WebhookStep /\ last'.event.type \notin HandledTypes)
     => /\ last'.http = 200
        /\ ~last'.failed
        /\ last'.calls = 0
        /\ UNCHANGED written
    ]_vars

C12_Witness ==
  /\ last.op = "webhook" /\ last.verified /\ last.http = 200
  /\ last.event.type = "customer.created"
  /\ traccarSession = NoSession

(* C13 as claimed: a logStripeEvent or markEventProcessed call leaves a     *)
(* record that had processed = TRUE at processed = TRUE, and there is      *)
(* never more than one record per event id                                 *)
C13_ProcessedIsTerminal ==
  [][\A id \in EventIds :
       /\ Cardinality(EventRows(tc_stripe_events', id)) <= 1
       /\ (\E ev \in EventRows(tc_stripe_events, id) : ev.processed)
            => (\E ev \in EventRows(tc_stripe_events', id) : ev.processed)
    ]_vars

(* A record that was processed, recorded again for a redelivery: one       *)
(* record, processed = FALSE, with the processed_at of its processing      *)
C13_Witness ==
  /\ last.op = "logStripeEvent" /\ ~last.processed /\ ~last.failed
  /\ Cardinality(EventRows(tc_stripe_events, last.id)) = 1
  /\ \E ev \in EventRows(tc_stripe_events, last.id) :
       ~ev.processed /\ ev.processed_at # NoTime

(* C14 as claimed: a verified delivery whose processing failed (answered   *)
(* with an error status) leaves the event recorded in tc_stripe_events as  *)
(* failed: processed = FALSE with the error message                        *)
C14_FailureMarkedFailed ==
  [][(WebhookStep /\ last'.http = 500)
     => \E ev \in tc_stripe_events' :
          /\ ev.stripe_event_id = last'.event.id
          /\ ~ev.processed
          /\ ev.error_message # NULL
    ]_vars

(* A redelivery that failed again, with no record of either attempt *)
C14_Witness ==
  /\ last.op = "webhook" /\ last.verified /\ last.http = 500 /\ last.attempt = 2
  /\ tc_stripe_events = {}

LoginsInFlight == {c \in Callers : client.pc[c] = "login"}

(* C15 as claimed: at most one POST /api/session is in flight at any time *)
C15_SingleFlightLogin == Cardinality(LoginsInFlight) <= 1

(* Two callers found no session and each sent its own login *)
C15_Witness ==
  /\ Cardinality(LoginsInFlight) = 2
  /\ client.logins = 2
  /\ traccarSession = NoSession

(* A cookie is cached and its expiry has not passed *)
CachedAndUnexpired ==
  traccarSession.sessionCookie # NULL /\ now < traccarSession.sessionExpiry

(* C16: a request() called while a cookie is cached and unexpired goes on  *)
(* to its fetch without a login request; called with no cookie or after    *)
(* the expiry it sends a login first; and the fetch of a call that logged  *)
(* in carries the cookie of that login or of a later one, a call that did  *)
(* not log in carries the cached cookie                                    *)
C16_SessionCache ==
  [][\A c \in Callers :
       /\ (client.pc[c] = "idle" /\ client'.pc[c] # "idle") =>
            IF CachedAndUnexpired
              THEN /\ client'.pc[c] = "send"
                   /\ client'.logins = client.logins
                   /\ traccarSession' = traccarSession
              ELSE /\ client'.pc[c] = "login"
                   /\ client'.logins = client.logins + 1
       /\ (client.pc[c] = "send" /\ client'.pc[c] = "fetch") =>
            /\ client'.cookie[c] = traccarSession.sessionCookie
            /\ client'.cookie[c] # NULL
            /\ client.own[c] # NULL =>
                 TokenIndex(client'.cookie[c]) >= TokenIndex(client.own[c])
    ]_vars

(* A call made after the expiry of an earlier session: it logged in at the *)
(* later time and its fetch carries the cookie of that login               *)
C16_Witness ==
  \E c \in Callers :
    /\ client.pc[c] = "fetch"
    /\ client.own[c] # NULL /\ client.cookie[c] = client.own[c]
    /\ client.issued = 2 /\ client.logins = 2
    /\ now = 2 /\ traccarSession.sessionExpiry = now + SessionTtl
    /\ \A d \in Callers \ {c} : client.pc[d] = "idle"

(* C17 as claimed: a fetch sent with the cached cookie and answered 401    *)
(* makes the call log in again (and retry), instead of failing             *)
C17_ReauthenticatesOn401 ==
  [][\A c \in Callers :
       ( /\ client.pc[c] = "fetch" /\ client'.pc[c] # "fetch"
         /\ client.own[c] = NULL
         /\ client'.answer[c] = 401 )
       => /\ client'.pc[c] = "login"
          /\ client'.logins = client.logins + 1
    ]_vars

(* The 401 of a fetch sent with the cached cookie, thrown to the caller *)
C17_Witness ==
  \E c \in Callers :
    /\ client.pc[c] = "done" /\ client.answer[c] = 401
    /\ client.own[c] = NULL /\ client.cookie[c] # NULL
    /\ client.result[c] = Thrown(TRUE, 401)

(* C18 as claimed: every non-2xx response a call receives, to its login or *)
(* to its fetch, reaches the caller as an error marked traccarError with   *)
(* the status of the response                                              *)
C18_Non2xxIsDirectoryError ==
  [][\A c \in Callers :
       ( /\ client.pc[c] \in {"login", "fetch"} /\ client'.pc[c] # client.pc[c]
         /\ client'.answer[c] # 200 )
       => /\ client'.result[c].done /\ ~client'.result[c].ok
          /\ client'.result[c].traccarError
          /\ client'.result[c].statusCode = client'.answer[c]
    ]_vars

(* A login answered 401: the caller gets an unmarked error without status *)
C18_Witness ==
  \E c \in Callers :
    /\ client.pc[c] = "done" /\ client.answer[c] = 401
    /\ client.cookie[c] = NULL
    /\ client.result[c] = Thrown(FALSE, 0)

(* The appended rows of an event type that belong to subscription i *)
AppendedFor(i, type) ==
  Cardinality({k \in 1..Len(Appended) :
                 Appended[k].subscription_id = i /\ Appended[k].event_type = type})

(* C20: a step appends, for every subscription row it found, exactly one   *)
(* status_changed row when it leaves the row with another status and none  *)
(* otherwise, exactly one plan_changed row when it leaves the row with     *)
(* another plan and none otherwise; an upsert over an existing row that    *)
(* changes neither status nor plan appends no history row at all           *)
C20_HistoryFollowsDiff ==
  [][\A i \in 1..Len(tc_user_subscriptions) :
       LET old_row == tc_user_subscriptions[i]
           new_row == tc_user_subscriptions'[i]
       IN /\ AppendedFor(i, "status_changed") =
               (IF old_row.status # new_row.status THEN 1 ELSE 0)
          /\ AppendedFor(i, "plan_changed") =
               (IF old_row.plan_id # new_row.plan_id THEN 1 ELSE 0)
          /\ ( /\ last'.op = "upsertSubscription"
               /\ old_row.status = new_row.status
               /\ old_row.plan_id = new_row.plan_id ) => Appended = <<>>
    ]_vars

(* An upsert that changed status and plan at once: two rows *)
C20_Witness ==
  /\ last.op = "upsertSubscription" /\ last.result = "ok"
  /\ Len(tc_subscription_history) = 3
  /\ tc_subscription_history[2].event_type = "status_changed"
  /\ tc_subscription_history[3].event_type = "plan_changed"
  /\ tc_subscription_history[2].metadata = <<"trialing", "active">>
  /\ tc_subscription_history[3].metadata = <<"basic", "moderate">>

(* The plans whose configured price id is the one given *)
PlansPricedAt(priceId) == {p \in DOMAIN stripePrices : stripePrices[p] = priceId}

(* C19: an accepted customer.subscription.created or .updated for an       *)
(* existing account leaves the account's device limit at the deviceLimit   *)
(* of the plan whose configured price id is the event's, whatever was      *)
(* stored before; a delivery whose price id matches no plan makes no       *)
(* directory call and leaves the directory as it was                       *)
C19_LimitFromEventPrice ==
  [][\A u \in 1..Len(tc_users) :
       ( /\ WebhookStep
         /\ last'.event.type \in {"customer.subscription.created",
                                  "customer.subscription.updated"}
         /\ FindByEmail(tc_users, last'.event.email) = u )
       => IF PlansPricedAt(last'.event.priceId) = {}
            THEN /\ tc_users' = tc_users
                 /\ last'.calls = 0
                 /\ last'.http = 200
            ELSE last'.http = 200 =>
                   \A p \in PlansPricedAt(last'.event.priceId) :
                     tc_users'[u].devicelimit = PLANS[p].deviceLimit
    ]_vars

(* The moderate price applied while the repository holds plan basic, 30 *)
C19_Witness ==
  /\ last.op = "webhook" /\ last.verified /\ last.http = 200
  /\ last.event.type = "customer.subscription.updated"
  /\ last.event.priceId = stripePrices.moderate
  /\ tc_users[1].devicelimit = PLANS["moderate"].deviceLimit
  /\ RowsOfUser(tc_user_subscriptions, 1) # {}
  /\ TheRow(tc_user_subscriptions, 1).plan_id = "basic"

(* C6: an upsert with plan moderate (and moderate's limit) over a row of   *)
(* plan basic appends exactly one plan_changed history row, with old_plan  *)
(* basic and new_plan moderate, and leaves device_limit at moderate's limit *)
C6_PlanChangeRoundTrip ==
  [][\A u \in UserIds :
       ( /\ UpsertStep(u) /\ last'.result = "ok"
         /\ RowsOfUser(tc_user_subscriptions, u) # {}
         /\ TheRow(tc_user_subscriptions, u).plan_id = "basic"
         /\ last'.data.plan_id = "moderate"
         /\ last'.data.device_limit = PLANS["moderate"].deviceLimit )
       => LET IsPlanChanged(h) == h.event_type = "plan_changed"
          IN /\ AppendedOfType("plan_changed") = 1
             /\ \A i \in 1..Len(Appended) :
                  IsPlanChanged(Appended[i]) =>
                    /\ Appended[i].metadata = <<"basic", "moderate">>
                    /\ Appended[i].userid = u
             /\ TheRow(tc_user_subscriptions', u).device_limit = PLANS["moderate"].deviceLimit
             /\ TheRow(tc_user_subscriptions', u).plan_id = "moderate"
    ]_vars

C6_Witness ==
  /\ last.op = "upsertSubscription" /\ last.result = "ok"
  /\ last.data.plan_id = "moderate"
  /\ Len(tc_subscription_history) >= 2
  /\ tc_subscription_history[1].event_type = "subscription_created"
  /\ tc_subscription_history[1].plan_id = "basic"
  /\ tc_subscription_history[Len(tc_subscription_history)].event_type = "plan_changed"
  /\ tc_subscription_history[Len(tc_subscription_history)].metadata = <<"basic", "moderate">>
  /\ TheRow(tc_user_subscriptions, last.userId).device_limit = PLANS["moderate"].deviceLimit

(* C7: every step leaves the history it found as a prefix of the history   *)
(* it leaves: rows are appended, never updated or deleted                  *)
C7_HistoryAppendOnly ==
  [][IsPrefix(tc_subscription_history, tc_subscription_history')]_vars

C7_Witness ==
  /\ Len(tc_subscription_history) = MaxHistory
  /\ last.op \in {"endSubscription", "cancelSubscription", "addSubscriptionHistory"}

(* C8: a failed upsertSubscription leaves subscriptions, history and        *)
(* tc_users as they were; a successful one leaves the row written, its     *)
(* history rows and the tc_users mirror together, updating the user's row  *)
(* in place when there is one and inserting one row otherwise              *)
C8_UpsertAllOrNothing ==
  [][\A u \in UserIds :
       UpsertStep(u) =>
         LET had == RowsOfUser(tc_user_subscriptions, u)
             d == last'.data
             mirror == tc_users'[u]
         IN IF last'.result = "thrown"
              THEN /\ tc_user_subscriptions' = tc_user_subscriptions
                   /\ tc_subscription_history' = tc_subscription_history
                   /\ tc_users' = tc_users
              ELSE /\ last'.fault = "none"
                   /\ RowsOfUser(tc_user_subscriptions', u) = {last'.id}
                   /\ IF had # {}
                        THEN /\ had = {last'.id}
                             /\ Len(tc_user_subscriptions') = Len(tc_user_subscriptions)
                        ELSE /\ last'.id = Len(tc_user_subscriptions) + 1
                             /\ Len(tc_user_subscriptions') = Len(tc_user_subscriptions) + 1
                   /\ \A i \in 1..Len(tc_user_subscriptions) :
                        i # last'.id => tc_user_subscriptions'[i] = tc_user_subscriptions[i]
                   /\ tc_user_subscriptions'[last'.id].plan_id = d.plan_id
                   /\ tc_user_subscriptions'[last'.id].status = d.status
                   /\ tc_user_subscriptions'[last'.id].device_limit = d.device_limit
                   /\ IsPrefix(tc_subscription_history, tc_subscription_history')
                   /\ (had = {}) =>
                        /\ Len(Appended) = 1
                        /\ Appended[1].event_type = "subscription_created"
                   /\ mirror.devicelimit =
                        (IF d.status \in ActiveLike THEN d.device_limit ELSE -1)
                   /\ mirror.expirationtime =
                        (IF d.status \in ActiveLike THEN d.current_period_end ELSE NoTime)
    ]_vars

C8_Witness ==
  /\ last.op = "upsertSubscription" /\ last.result = "thrown"
  /\ last.fault = "commit"
  /\ RowsOfUser(tc_user_subscriptions, last.userId) # {}

EndStep(u) == last'.op = "endSubscription" /\ last'.userId = u

CancelStep(u) == last'.op = "cancelSubscription" /\ last'.userId = u

(* The rows of the user that are not canceled *)
OpenRowsOfUser(subs, u) == {i \in RowsOfUser(subs, u) : subs[i].status # "canceled"}

(* C21 as claimed: an endSubscription call (none of its statements failing) *)
(* for a user whose subscription rows are all canceled changes no           *)
(* subscription row, no tc_users row and appends no history row; on a       *)
(* row that is not canceled it sets status canceled and ended_at to the     *)
(* time of the call                                                         *)
C21_EndOnCanceledIsNoOp ==
  [][\A u \in UserIds :
       (EndStep(u) /\ last'.fault = "none") =>
         IF RowsOfUser(tc_user_subscriptions, u) # {}
              /\ OpenRowsOfUser(tc_user_subscriptions, u) = {}
           THEN /\ tc_user_subscriptions' = tc_user_subscriptions
                /\ tc_users' = tc_users
                /\ tc_subscription_history' = tc_subscription_history
           ELSE \A i \in OpenRowsOfUser(tc_user_subscriptions, u) :
                  /\ tc_user_subscriptions'[i].status = "canceled"
                  /\ tc_user_subscriptions'[i].ended_at = now
    ]_vars

(* A row that was canceled when endSubscription ran (ended_at was never    *)
(* set), and the subscription_ended history row the call appended          *)
C21_Witness ==
  /\ last.op = "endSubscription" /\ last.fault = "none" /\ last.result = "ok"
  /\ RowsOfUser(tc_user_subscriptions, last.userId) # {}
  /\ TheRow(tc_user_subscriptions, last.userId).status = "canceled"
  /\ TheRow(tc_user_subscriptions, last.userId).ended_at = NoTime
  /\ tc_subscription_history # <<>>
  /\ tc_subscription_history[Len(tc_subscription_history)].event_type = "subscription_ended"

(* C22 as claimed: a cancelSubscription call (none of its statements        *)
(* failing) leaves the status of every row as it was and the flag of the   *)
(* user's active or trialing rows at the one given, and a call that        *)
(* follows a call for the same user with the same flag appends no history  *)
(* row                                                                     *)
C22_CancelFlagOnce ==
  [][\A u \in UserIds :
       (CancelStep(u) /\ last'.fault = "none") =>
         /\ \A i \in 1..Len(tc_user_subscriptions) :
              tc_user_subscriptions'[i].status = tc_user_subscriptions[i].status
         /\ \A i \in ActiveRowsOfUser(tc_user_subscriptions, u) :
              tc_user_subscriptions'[i].cancel_at_period_end = last'.flag
         /\ ( /\ last.op = "cancelSubscription" /\ last.userId = u
              /\ last.fault = "none" /\ last.flag = last'.flag )
            => Appended = <<>>
    ]_vars

(* Two subscription_canceled rows for a row whose flag was never set       *)
(* (canceled_at was never written): both calls left the flag at FALSE      *)
C22_Witness ==
  /\ last.op = "cancelSubscription" /\ last.fault = "none" /\ ~last.flag
  /\ RowsOfUser(tc_user_subscriptions, last.userId) # {}
  /\ TheRow(tc_user_subscriptions, last.userId).canceled_at = NoTime
  /\ ~TheRow(tc_user_subscriptions, last.userId).cancel_at_period_end
  /\ Len(tc_subscription_history) = 3
  /\ tc_subscription_history[2].event_type = "subscription_canceled"
  /\ tc_subscription_history[3].event_type = "subscription_canceled"

(* C23 as claimed: an endSubscription or cancelSubscription call one of    *)
(* whose statements fails leaves subscriptions, tc_users and the history   *)
(* as they were                                                            *)
C23_EndCancelAllOrNothing ==
  [][( /\ last'.op \in {"endSubscription", "cancelSubscription"}
       /\ last'.fault # "none" )
     => /\ tc_user_subscriptions' = tc_user_subscriptions
        /\ tc_users' = tc_users
        /\ tc_subscription_history' = tc_subscription_history
    ]_vars

(* endSubscription whose sync CALL failed: the error is thrown, the row is *)
(* canceled and ended, and no subscription_ended row was appended          *)
C23_Witness ==
  /\ last.op = "endSubscription" /\ last.fault = "sync" /\ last.result = "thrown"
  /\ RowsOfUser(tc_user_subscriptions, last.userId) # {}
  /\ TheRow(tc_user_subscriptions, last.userId).status = "canceled"
  /\ TheRow(tc_user_subscriptions, last.userId).ended_at = now
  /\ tc_subscription_history[Len(tc_subscription_history)].event_type = "status_changed"

(* C24: a verified customer.subscription.updated for an existing account   *)
(* and a configured price, with status past_due or unpaid, leaves the      *)
(* account's disabled flag as it was (also when a directory call fails)    *)
(* and, when accepted, leaves the subscriptionStatus attribute at the      *)
(* event's status; with status active an accepted delivery leaves the      *)
(* account enabled                                                         *)
C24_PaymentIssueKeepsAccountEnabled ==
  [][\A u \in 1..Len(tc_users) :
       ( /\ WebhookStep
         /\ last'.event.type = "customer.subscription.updated"
         /\ getPlanByPriceId(last'.event.priceId) # NULL
         /\ FindByEmail(tc_users, last'.event.email) = u )
       => /\ last'.event.status \in {"past_due", "unpaid"} =>
               /\ tc_users'[u].disabled = tc_users[u].disabled
               /\ last'.http = 200 =>
                    tc_users'[u].attributes.subscriptionStatus = last'.event.status
          /\ (last'.event.status = "active" /\ last'.http = 200) =>
               /\ ~tc_users'[u].disabled
               /\ tc_users'[u].attributes.subscriptionStatus = "active"
    ]_vars

(* An unpaid update for the account a deletion had disabled before: the    *)
(* flag stays as it was and the attribute says unpaid                      *)
C24_Witness ==
  /\ last.op = "webhook" /\ last.verified /\ last.http = 200
  /\ last.event.type = "customer.subscription.updated"
  /\ last.event.status = "unpaid"
  /\ tc_users[1].disabled
  /\ tc_users[1].attributes.subscriptionStatus = "unpaid"

(* C25: a verified invoice.payment_failed for an existing account leaves   *)
(* every field of the account's record but its attributes as it was        *)
(* (devicelimit and disabled included), leaves the subscriptionPlan and    *)
(* stripeSubscriptionId attributes, every other record and every           *)
(* subscription and history row as they were, and, when accepted, leaves   *)
(* the subscriptionStatus attribute at payment_failed                      *)
C25_PaymentFailedTouchesAttributesOnly ==
  [][\A u \in 1..Len(tc_users) :
       ( /\ WebhookStep
         /\ last'.event.type = "invoice.payment_failed"
         /\ FindByEmail(tc_users, last'.event.email) = u )
       => /\ Len(tc_users') = Len(tc_users)
          /\ \A k \in 1..Len(tc_users) : k # u => tc_users'[k] = tc_users[k]
          /\ tc_users'[u].devicelimit = tc_users[u].devicelimit
          /\ tc_users'[u].disabled = tc_users[u].disabled
          /\ [tc_users'[u] EXCEPT !.attributes = tc_users[u].attributes] = tc_users[u]
          /\ [tc_users'[u].attributes EXCEPT !.subscriptionStatus =
                tc_users[u].attributes.subscriptionStatus] = tc_users[u].attributes
          /\ last'.http = 200 => tc_users'[u].attributes.subscriptionStatus = "payment_failed"
          /\ tc_user_subscriptions' = tc_user_subscriptions
          /\ tc_subscription_history' = tc_subscription_history
    ]_vars

(* A failed payment for a disabled account with a limit of 0 and an        *)
(* active subscription row of 30 devices                                   *)
C25_Witness ==
  /\ last.op = "webhook" /\ last.verified /\ last.http = 200
  /\ last.event.type = "invoice.payment_failed"
  /\ tc_users[1].attributes.subscriptionStatus = "payment_failed"
  /\ tc_users[1].attributes.subscriptionPlan = "moderate"
  /\ tc_users[1].devicelimit = 0 /\ tc_users[1].disabled
  /\ RowsOfUser(tc_user_subscriptions, 1) # {}
  /\ TheRow(tc_user_subscriptions, 1).status = "active"

(* The device limits of the README's plan table *)
DocumentedDeviceLimit == [basic |-> 30, moderate |-> 80, advance |-> 150]

(* C29 as claimed: an accepted customer.subscription.created or .updated   *)
(* carrying the price of Basic, Moderate or Advance leaves the account's   *)
(* device limit at the documented 30, 80 or 150                            *)
C29_DocumentedLimitApplied ==
  [][\A u \in 1..Len(tc_users) :
       ( /\ WebhookStep /\ last'.http = 200
         /\ last'.event.type \in {"customer.subscription.created",
                                  "customer.subscription.updated"}
         /\ FindByEmail(tc_users, last'.event.email) = u )
       => \A p \in PlansPricedAt(last'.event.priceId) \cap DOMAIN DocumentedDeviceLimit :
            tc_users'[u].devicelimit = DocumentedDeviceLimit[p]
    ]_vars

(* The Advance price applied: the account's limit is 350 *)
C29_Witness ==
  /\ last.op = "webhook" /\ last.verified /\ last.http = 200
  /\ last.event.type = "customer.subscription.created"
  /\ last.event.priceId = stripePrices.advance
  /\ tc_users[1].devicelimit = 350
  /\ tc_users[1].attributes.subscriptionPlan = "advance"

(* C27: every device has at most one ownership row; a successful            *)
(* setDeviceOwner(deviceId, ownerId) leaves the device with exactly one     *)
(* row, owned by ownerId, whose transferred_from is the owner the device   *)
(* had before the call when it had one, and leaves the rows of the other   *)
(* devices as they were; every other step (a setDeviceOwner that throws    *)
(* included) leaves the table as it was                                    *)
C27_OneOwnerPerDevice ==
  [][ /\ \A d \in DeviceIds : Cardinality(OwnershipRows(tc_device_ownership', d)) <= 1
      /\ IF last'.op = "setDeviceOwner" /\ last'.result = "ok"
           THEN /\ \E r \in tc_device_ownership' :
                     /\ OwnershipRows(tc_device_ownership', last'.deviceId) = {r}
                     /\ r.ownerid = last'.ownerId
                     /\ \A b \in OwnershipRows(tc_device_ownership, last'.deviceId) :
                          r.transferred_from = b.ownerid
                /\ \A e \in DeviceIds \ {last'.deviceId} :
                     OwnershipRows(tc_device_ownership', e) =
                       OwnershipRows(tc_device_ownership, e)
           ELSE tc_device_ownership' = tc_device_ownership
    ]_vars

(* A device handed from account 1 to account 2, next to a device that      *)
(* never changed hands                                                     *)
C27_Witness ==
  /\ last.op = "setDeviceOwner" /\ last.result = "ok" /\ last.ownerId = 2
  /\ OwnershipRows(tc_device_ownership, last.deviceId) =
       {[deviceid |-> last.deviceId, ownerid |-> 2, transferred_from |-> 1]}
  /\ \E e \in DeviceIds \ {last.deviceId} :
       OwnershipRows(tc_device_ownership, e) =
         {[deviceid |-> e, ownerid |-> 1, transferred_from |-> 0]}

(* Pairs of distinct rows holding the same non-NULL value in the column *)
SharedStripeSubscription(subs) ==
  {<<i, j>> \in (1..Len(subs)) \X (1..Len(subs)) :
     /\ i < j /\ subs[i].stripe_subscription_id # NULL
     /\ subs[i].stripe_subscription_id = subs[j].stripe_subscription_id}

SharedStripeCustomer(subs) ==
  {<<i, j>> \in (1..Len(subs)) \X (1..Len(subs)) :
     /\ i < j /\ subs[i].stripe_customer_id # NULL
     /\ subs[i].stripe_customer_id = subs[j].stripe_customer_id}

(* C28 as claimed: no two subscription rows share a Stripe subscription id *)
(* or a Stripe customer id; an upsertSubscription succeeds only when no    *)
(* row of another user holds the subscription id or the customer id of its *)
(* data, and one that throws leaves subscriptions, history and tc_users as *)
(* they were                                                               *)
C28_StripeIdsUnique ==
  [][ /\ SharedStripeSubscription(tc_user_subscriptions') = {}
      /\ SharedStripeCustomer(tc_user_subscriptions') = {}
      /\ \A u \in UserIds :
           UpsertStep(u) =>
             IF last'.result = "ok"
               THEN \A j \in 1..Len(tc_user_subscriptions) :
                      tc_user_subscriptions[j].userid # u =>
                        /\ tc_user_subscriptions[j].stripe_subscription_id #
                             last'.data.stripe_subscription_id
                        /\ tc_user_subscriptions[j].stripe_customer_id #
                             last'.data.stripe_customer_id
               ELSE /\ tc_user_subscriptions' = tc_user_subscriptions
                    /\ tc_subscription_history' = tc_subscription_history
                    /\ tc_users' = tc_users
    ]_vars

(* The rows of two users with one Stripe customer id and two subscription *)
(* ids, the second just inserted                                          *)
C28_Witness ==
  /\ last.op = "upsertSubscription" /\ last.result = "ok" /\ last.id = 2
  /\ Len(tc_user_subscriptions) = 2
  /\ tc_user_subscriptions[1].userid # tc_user_subscriptions[2].userid
  /\ SharedStripeCustomer(tc_user_subscriptions) = {<<1, 2>>}
  /\ SharedStripeSubscription(tc_user_subscriptions) = {}

(* Pairs of distinct directory accounts with one email *)
SharedEmail(users) ==
  {<<i, j>> \in (1..Len(users)) \X (1..Len(users)) : i < j /\ users[i].email = users[j].email}

(* C26 as claimed: whatever the interleaving of the checkout handlers, the *)
(* POST /api/users of createUser reaches the directory only while no       *)
(* account has the email, and no two accounts ever have the same email     *)
C26_NoDuplicateAccounts ==
  [][ /\ \A h \in Handlers :
           (tasks.checkout[h].pc = "create" /\ tasks'.checkout[h].pc # "create")
             => FindByEmail(tc_users, tasks.checkout[h].email) = 0
      /\ SharedEmail(tc_users') = {}
    ]_vars

(* Both handlers looked the email up before either created the account:   *)
(* each created one                                                       *)
C26_Witness ==
  /\ \A h \in Handlers :
       /\ tasks.checkout[h].pc \in {"meta_get", "meta_put", "done"}
       /\ tasks.checkout[h].email = "new@x.com"
  /\ tasks.checkout[1].user # tasks.checkout[2].user
  /\ SharedEmail(tc_users) = {<<2, 3>>}

(* C30: the SELECT of upsertSubscription returns the user's committed rows *)
(* and locks nothing, and a call whose SELECT found no row inserts a new   *)
(* row when it comes to write, whatever rows the user holds by then: a     *)
(* call that selected before another call's insert for the same user adds  *)
(* a second row for the user                                               *)
C30_StaleLookupInserts ==
  [][\A h \in Handlers :
       /\ (tasks.upsert[h].pc = "idle" /\ tasks'.upsert[h].pc = "selected") =>
            /\ tasks'.upsert[h].existing =
                 RowsOfUser(tc_user_subscriptions, tasks'.upsert[h].userId)
            /\ tc_user_subscriptions' = tc_user_subscriptions
       /\ ( /\ tasks.upsert[h].pc = "selected" /\ tasks'.upsert[h].pc = "done"
            /\ tasks.upsert[h].existing = {} ) =>
            /\ Len(tc_user_subscriptions') = Len(tc_user_subscriptions) + 1
            /\ tasks'.upsert[h].id = Len(tc_user_subscriptions')
            /\ RowsOfUser(tc_user_subscriptions', tasks.upsert[h].userId) =
                 RowsOfUser(tc_user_subscriptions, tasks.upsert[h].userId)
                   \cup {tasks'.upsert[h].id}
    ]_vars

(* Two calls for user 1, both having found no row, have both committed:   *)
(* the user holds two active rows                                         *)
C30_Witness ==
  /\ \A h \in Handlers :
       /\ tasks.upsert[h].pc = "done" /\ tasks.upsert[h].userId = 1
       /\ tasks.upsert[h].existing = {}
  /\ tasks.upsert[1].id # tasks.upsert[2].id
  /\ Len(tc_user_subscriptions) = 2
  /\ Cardinality(ActiveRowsOfUser(tc_user_subscriptions, 1)) = 2

(* C34 as claimed: a verified invoice.payment_failed,                      *)
(* invoice.payment_succeeded or checkout.session.completed for an account  *)
(* that is disabled (as customer.subscription.deleted left it) leaves it   *)
(* disabled                                                                *)
C34_StaysDisabledUntilReactivated ==
  [][\A u \in 1..Len(tc_users) :
       ( /\ WebhookStep
         /\ last'.event.type \in {"invoice.payment_failed", "invoice.payment_succeeded",
                                  "checkout.session.completed"}
         /\ FindByEmail(tc_users, last'.event.email) = u
         /\ tc_users[u].disabled )
       => tc_users'[u].disabled
    ]_vars

(* invoice.payment_succeeded for the account a deletion had disabled and   *)
(* limited to 0: the account is enabled, its limit is still 0              *)
C34_Witness ==
  /\ last.op = "webhook" /\ last.verified /\ last.http = 200
  /\ last.event.type = "invoice.payment_succeeded"
  /\ ~tc_users[1].disabled /\ tc_users[1].devicelimit = 0
  /\ tc_users[1].attributes.subscriptionStatus = "active"

(* C36: a verified delivery of the event whose previous delivery, the step *)
(* before, was accepted leaves every directory record as it was and        *)
(* creates no account, whether or not the second run completes             *)
C36_RedeliveryKeepsDirectory ==
  [][( /\ WebhookStep
       /\ last.op = "webhook" /\ last.verified /\ last.http = 200
       /\ last'.event.id = last.event.id
       /\ last'.event.type \in HandledTypes )
     => tc_users' = tc_users
    ]_vars

(* The second accepted delivery of the checkout of a new email: one        *)
(* account for it, and the calls of the second run were made               *)
C36_Witness ==
  /\ last.op = "webhook" /\ last.verified /\ last.http = 200 /\ last.attempt = 2
  /\ last.event.type = "checkout.session.completed"
  /\ last.event.subscription # NULL
  /\ last.calls > 0
  /\ Len(tc_users) = 2
  /\ tc_users[2].email = last.event.email

(* C40 as claimed: a verified delivery answered 500 leaves every directory *)
(* record as it was                                                        *)
C40_FailedHandlerLeavesDirectory ==
  [][(WebhookStep /\ last'.http = 500) => tc_users' = tc_users]_vars

(* customer.subscription.deleted whose limit update failed after the       *)
(* account was disabled: disabled, with the limit it had                   *)
C40_Witness ==
  /\ last.op = "webhook" /\ last.verified /\ last.http = 500
  /\ last.event.type = "customer.subscription.deleted"
  /\ tc_users[1].disabled /\ tc_users[1].devicelimit # 0
  /\ tc_users[1].attributes.subscriptionStatus # "canceled"

(* The mirror columns of user u agree with the subscription rows *)
MirrorAgrees(users, subs, u) ==
  LET act == ActiveRowsOfUser(subs, u)
  IN IF act = {}
       THEN users[u].devicelimit = -1 /\ users[u].expirationtime = NoTime
       ELSE \E j \in act : /\ users[u].devicelimit = subs[j].device_limit
                           /\ users[u].expirationtime = subs[j].current_period_end

(* C39: after an upsertSubscription that committed and after an            *)
(* endSubscription that completed, tc_users.devicelimit and expirationtime *)
(* of the user are those of the user's active or trialing row, and -1 and  *)
(* NULL when the user has none                                             *)
C39_MirrorAgrees ==
  [][\A u \in 1..Len(tc_users) :
       ((UpsertStep(u) \/ EndStep(u)) /\ last'.result = "ok")
         => MirrorAgrees(tc_users', tc_user_subscriptions', u)
    ]_vars

(* endSubscription completed on a subscribed user: the row is canceled,    *)
(* the mirror is back to -1 and NULL, the other user's mirror has its row  *)
C39_Witness ==
  /\ last.op = "endSubscription" /\ last.result = "ok" /\ last.userId = 1
  /\ RowsOfUser(tc_user_subscriptions, 1) # {}
  /\ ActiveRowsOfUser(tc_user_subscriptions, 1) = {}
  /\ tc_users[1].devicelimit = -1 /\ tc_users[1].expirationtime = NoTime
  /\ ActiveRowsOfUser(tc_user_subscriptions, 2) # {}
  /\ tc_users[2].devicelimit = PLANS["basic"].deviceLimit

(* The plan a session was created for *)
PlanOfSession(s) == PLANS[getPlanByPriceId(s.price)]

(* C37 as claimed: the account that a checkout.session.completed of a      *)
(* session of POST /billing/checkout creates has the device limit of the   *)
(* plan the session was created for, whatever metadata the request carried *)
C37_PlanDeterminesLimit ==
  [][\A s \in tasks.sessions :
       ( /\ WebhookStep
         /\ last'.event = SessionCompleted(s)
         /\ Len(tc_users') = Len(tc_users) + 1 )
       => tc_users'[Len(tc_users')].devicelimit = PlanOfSession(s).deviceLimit
    ]_vars

(* The account of a basic checkout whose request carried                   *)
(* metadata.deviceLimit "80": created with limit 80                        *)
C37_Witness ==
  /\ last.op = "webhook" /\ last.verified /\ last.http = 200
  /\ \E s \in tasks.sessions :
       /\ last.event = SessionCompleted(s)
       /\ s.price = stripePrices.basic
       /\ s.metadata.deviceLimit = "80"
  /\ Len(tc_users) = 2
  /\ tc_users[2].email = "new@x.com"
  /\ tc_users[2].devicelimit = PLANS["moderate"].deviceLimit
  /\ tc_users[2].attributes.subscriptionPlan = "basic"

(* C38 as claimed: the account handleCheckoutCompleted creates has the     *)
(* limit parseInt read from metadata.deviceLimit, 0 included, and is       *)
(* unlimited (-1) only if -1 was read                                      *)
C38_CreatesLimitGiven ==
  [][( /\ WebhookStep
       /\ last'.event.type = "checkout.session.completed"
       /\ Len(tc_users') = Len(tc_users) + 1 )
     => LET given == parseInt(last'.event.deviceLimit)
            limit == tc_users'[Len(tc_users')].devicelimit
        IN /\ ~given.nan => limit = given.v
           /\ limit = -1 => given = Num(-1)
    ]_vars

(* The account of a session with metadata.deviceLimit "0": unlimited *)
C38_Witness ==
  /\ last.op = "webhook" /\ last.verified /\ last.http = 200
  /\ last.event.type = "checkout.session.completed"
  /\ last.event.deviceLimit = "0"
  /\ Len(tc_users) = 2
  /\ tc_users[2].email = last.event.email
  /\ tc_users[2].devicelimit = -1
  /\ ~tc_users[2].disabled

(* C33 as claimed: once checkout.session.completed and                     *)
(* customer.subscription.created of one session have been accepted one     *)
(* right after the other, in either order, the account of the session's   *)
(* email exists, is enabled and has the device limit of the plan of the    *)
(* subscription's price                                                    *)
C33_OrderIndependent ==
  [][\A s \in tasks.sessions :
       ( /\ WebhookStep /\ last'.http = 200
         /\ last.op = "webhook" /\ last.verified /\ last.http = 200
         /\ {last.event, last'.event} = {SessionCompleted(s), SubscriptionCreatedOf(s)} )
       => LET u == FindByEmail(tc_users', s.customer_email)
          IN /\ u # 0
             /\ ~tc_users'[u].disabled
             /\ tc_users'[u].devicelimit = PlanOfSession(s).deviceLimit
    ]_vars

(* checkout.session.completed processed last, for a moderate session whose *)
(* request carried metadata.deviceLimit "unlimited": the account exists    *)
(* and is enabled, with limit -1 and not the plan's                        *)
C33_Witness ==
  /\ last.op = "webhook" /\ last.verified /\ last.http = 200
  /\ \E s \in tasks.sessions :
       /\ last.event = SessionCompleted(s)
       /\ s.price = stripePrices.moderate
       /\ s.metadata.deviceLimit = "unlimited"
  /\ Len(tc_users) = 2
  /\ ~tc_users[2].disabled
  /\ tc_users[2].devicelimit = -1
  /\ tc_users[2].attributes.subscriptionPlan = "moderate"

(* C32: a PUT of updateUserLimits or setUserStatus stores the record as    *)
(* the call's GET returned it, with the call's own fields set: every       *)
(* field the call does not set goes back to its value at the GET, so what  *)
(* another update wrote in between is lost                                 *)
C32_PutWritesFetchedRecord ==
  [][\A h \in Handlers :
       (tasks.update[h].pc = "put" /\ tasks'.update[h].pc = "done")
       => LET t == tasks.update[h]
              after == tc_users'[t.userId]
          IN IF t.call.method = "updateUserLimits"
               THEN /\ after.devicelimit = t.call.deviceLimit
                    /\ after.attributes.subscriptionStatus = t.call.subscriptionStatus
                    /\ after.disabled = t.record.disabled
               ELSE /\ after.disabled = t.call.disabled
                    /\ after.devicelimit = t.record.devicelimit
                    /\ after.attributes = t.record.attributes
    ]_vars

(* setUserStatus(1, true) and updateUserLimits(1, 0, canceled) both        *)
(* completed, and the account has the limit 0 but is not disabled          *)
C32_Witness ==
  /\ \E h1, h2 \in Handlers :
       /\ h1 # h2
       /\ tasks.update[h1].pc = "done" /\ tasks.update[h2].pc = "done"
       /\ tasks.update[h1].userId = 1 /\ tasks.update[h2].userId = 1
       /\ tasks.update[h1].call.method = "setUserStatus"
       /\ tasks.update[h1].call.disabled
       /\ tasks.update[h2].call.method = "updateUserLimits"
  /\ tc_users[1].devicelimit = 0
  /\ tc_users[1].attributes.subscriptionStatus = "canceled"
  /\ ~tc_users[1].disabled

(* C31 as claimed: what canAddDevice returns is the verdict its own CALL   *)
(* computed for its user                                                   *)
C31_OwnVerdict ==
  [][\A h \in Handlers :
       (tasks.device[h].pc = "select" /\ tasks'.device[h].pc = "checked")
       => tasks'.device[h].verdict = VerdictOf(tasks.device[h].own)
    ]_vars

(* canAddDevice for the account without a subscription returned the        *)
(* verdict computed for the subscribed one: allowed, 1 remaining           *)
C31_Witness ==
  \E h \in Handlers :
    /\ tasks.device[h].pc = "checked"
    /\ tasks.device[h].userId = 2
    /\ tasks.device[h].own.message = "No active subscription found"
    /\ tasks.device[h].verdict.canAdd
    /\ tasks.device[h].verdict.remaining = 1

(* C35: a caller that canAddDevice allowed records its device whatever the *)
(* user's count has become since: setDeviceOwner adds the row without      *)
(* looking at the limit                                                    *)
C35_OwnAfterCheckIgnoresLimit ==
  [][\A h \in Handlers :
       (tasks.device[h].pc = "checked" /\ tasks'.device[h].pc = "done")
       => Cardinality({r \in tc_device_ownership' : r.ownerid = tasks.device[h].userId})
            = Cardinality({r \in tc_device_ownership : r.ownerid = tasks.device[h].userId}) + 1
    ]_vars

(* Two callers for the user with device_limit 1, each allowed by the       *)
(* verdict of its own CALL, each having recorded a device: 2 owned         *)
C35_Witness ==
  /\ \E h1, h2 \in Handlers :
       /\ h1 # h2
       /\ \A h \in {h1, h2} :
            /\ tasks.device[h].pc = "done"
            /\ tasks.device[h].userId = 1
            /\ tasks.device[h].verdict = VerdictOf(tasks.device[h].own)
            /\ tasks.device[h].verdict.canAdd
  /\ Cardinality(OwnedDevices(1)) = 2
  /\ \A j \in ActiveRowsOfUser(tc_user_subscriptions, 1) :
       tc_user_subscriptions[j].device_limit = 1
  /\ ActiveRowsOfUser(tc_user_subscriptions, 1) # {}

====
